---- MODULE Spec2Model ----
(***************************************************************************)
(* State-machine model of CampusRentalFinder (rental-platform/backend).    *)
(* reviews: helpfulness voting with its cached counters, the review-report *)
(* moderation workflow, review creation and the landlord response.         *)
(* rentals: the rental list and detail views with their search filters.    *)
(***************************************************************************)
EXTENDS Bags, FiniteSets, Integers, Sequences, TLC

(***************************************************************************)
(* Optional values (Python None / an absent request key) are sequences of  *)
(* length at most one.                                                     *)
(***************************************************************************)
None == <<>>

Some(x) == <<x>>

IsSome(o) == o # <<>>

Get(o) == o[1]

(***************************************************************************)
(* The identity store: two tenants, two landlords and a staff              *)
(* administrator, plus the unauthenticated requester.                      *)
(***************************************************************************)
Users == {"t1", "t2", "l1", "l2", "a1"}

AnonymousUser == "anon"

Requesters == Users \cup {AnonymousUser}

user_type == [u \in Users |->
                 CASE u \in {"t1", "t2"} -> "tenant"
                   [] u \in {"l1", "l2"} -> "landlord"
                   [] OTHER              -> "admin"]

is_staff == [u \in Users |-> u = "a1"]

is_authenticated(u) == u \in Users

(***************************************************************************)
(* The review table holds two reviews, one by each tenant.  ReviewIds are  *)
(* the primary keys; NoSuchReview is a key that matches no row.            *)
(***************************************************************************)
ReviewIds == {1, 2}

NoSuchReview == 9

ReviewAuthor == [r \in ReviewIds |-> IF r = 1 THEN "t1" ELSE "t2"]

(***************************************************************************)
(* The rental table.  Text is a sequence of characters, a nullable column  *)
(* an optional value, a date a day number.                                 *)
(***************************************************************************)
RentalIds == {1, 2}

NoSuchRental == 9

RENTAL_STATUS == {"available", "rented", "pending", "maintenance", "inactive"}

PROPERTY_TYPES == {"apartment", "house", "condo", "townhouse", "studio", "room", "other"}

FURNISHING_STATUS == {"furnished", "semi_furnished", "unfurnished"}

\* a rental as RentalCreateSerializer stores it with the model's defaults
DefaultRental ==
    [landlord |-> "l1", status |-> "available", title |-> <<"a">>,
     description |-> <<"b">>, address |-> <<"c">>, city |-> <<"d">>, state |-> <<"e">>,
     property_type |-> "apartment", price |-> 800, bedrooms |-> 1, bathrooms |-> 1,
     pets_allowed |-> FALSE, parking_available |-> FALSE,
     furnishing_status |-> "unfurnished", utilities_included |-> FALSE,
     shuttle_service |-> FALSE, distance_to_campus |-> None, available_from |-> 1,
     latitude |-> None, longitude |-> None, views_count |-> 0, created_at |-> 1]

\* the rentals the reviews are about: one of each landlord
ReviewedRentals ==
    [k \in RentalIds |-> [DefaultRental EXCEPT !.landlord = IF k = 1 THEN "l1" ELSE "l2"]]

VARIABLES
    reviews,    \* review pk -> Review row
    votes,      \* bag of ReviewHelpfulness rows [review, user, is_helpful]
    response,   \* outcome of the last handled request
    pc,         \* worker -> position of the vote request it is serving
    local,      \* worker -> local variables of that request
    started,    \* number of vote requests the workers have taken up
    reports,    \* set of ReviewReport rows
    now,        \* the value timezone.now() returns
    rentals,    \* rental pk -> Rental row
    favorites,  \* bag of RentalFavorite rows [user, rental]
    images      \* image pk -> RentalImage row

vars == <<reviews, votes, response, pc, local, started, reports, now, rentals,
          favorites, images>>

rentalVars == <<rentals, favorites, images>>

concVars == <<pc, local, started>>

voteVars == <<votes, pc, local, started>>

reportVars == <<reports, now>>

NoResponse == [op |-> "none", status |-> 0, created |-> FALSE]

Reply(op, status) == [op |-> op, status |-> status, created |-> FALSE]

\* the outcome of a request together with who sent it, the row it named and
\* the error it reported
ReplyTo(op, status, u, target, detail) ==
    [op |-> op, status |-> status, created |-> status = 201,
     user |-> u, target |-> target, detail |-> detail]

(***************************************************************************)
(* Review rows.  Review.save() fills an empty title from the rating.       *)
(***************************************************************************)
RATING_CHOICES ==
    [k \in 1..5 |-> CASE k = 1 -> "1 - Poor"
                      [] k = 2 -> "2 - Fair"
                      [] k = 3 -> "3 - Good"
                      [] k = 4 -> "4 - Very Good"
                      [] OTHER -> "5 - Excellent"]

\* Review.save(): "{rating_text} experience" when no title was given
save_title(rating, title) ==
    IF title = <<>> THEN <<RATING_CHOICES[rating], " experience">> ELSE title

\* a saved review with the model's defaults for the fields the create
\* serializer does not take
Review(rental, tenant, rating, title, comment) ==
    [rental |-> rental, tenant |-> tenant, rating |-> rating,
     title |-> save_title(rating, title), comment |-> comment,
     is_approved |-> TRUE, is_verified |-> FALSE, landlord_response |-> <<>>,
     landlord_response_date |-> None, helpful_votes |-> 0, total_votes |-> 0,
     updated_at |-> 1]

\* Review.helpfulness_percentage: round((helpful_votes / total_votes) * 100, 1),
\* in tenths of a percent; a quotient with fewer than 16 votes never lies
\* halfway between two tenths, so rounding half up is rounding
helpfulness_percentage(row) ==
    IF row.total_votes > 0
    THEN (2000 * row.helpful_votes + row.total_votes) \div (2 * row.total_votes)
    ELSE 0

(***************************************************************************)
(* ReviewHelpfulness rows and the queries the code runs on them.           *)
(***************************************************************************)
ReviewHelpfulness(r, u, h) == [review |-> r, user |-> u, is_helpful |-> h]

RECURSIVE SumCopies(_, _)
SumCopies(S, B) ==
    IF S = {} THEN 0
    ELSE LET x == CHOOSE y \in S : TRUE
         IN  CopiesIn(x, B) + SumCopies(S \ {x}, B)

\* review.helpfulness_votes.count()
total_count(vs, r) ==
    SumCopies({x \in BagToSet(vs) : x.review = r}, vs)

\* review.helpfulness_votes.filter(is_helpful=True).count()
helpful_count(vs, r) ==
    SumCopies({x \in BagToSet(vs) : x.review = r /\ x.is_helpful}, vs)

\* Review.objects.filter(id=review.id).update(helpful_votes=..., total_votes=...)
update_counters(rs, r, h, t) ==
    [rs EXCEPT ![r].helpful_votes = h, ![r].total_votes = t]

\* the lookup with the user filter left out
existing_votes_any_user(vs, r, u) ==
    {x \in BagToSet(vs) : x.review = r}

\* ReviewHelpfulness.objects.filter(review=review, user=user)
existing_votes(vs, r, u) ==
    {x \in BagToSet(vs) : x.review = r /\ x.user = u}

\* unique_together = ['review', 'user']: the store rejects a second row
unique_together_violated(vs, r, u) ==
    \E x \in BagToSet(vs) : x.review = r /\ x.user = u

\* existing_vote.is_helpful = ...; existing_vote.save()
save_existing(vs, old, h) ==
    (vs (-) SetToBag({old})) (+) SetToBag({[old EXCEPT !.is_helpful = h]})

\* super().create(validated_data)
insert_vote(vs, r, u, h) == vs (+) SetToBag({ReviewHelpfulness(r, u, h)})

\* post_save receiver: recompute only when the row was created
update_review_helpfulness_on_save(rs, vs, r, created) ==
    IF created
    THEN update_counters(rs, r, helpful_count(vs, r), total_count(vs, r))
    ELSE rs

\* only the total recomputed
update_total_on_delete(rs, vs, r) ==
    [rs EXCEPT ![r].total_votes = total_count(vs, r)]

\* post_delete receiver: always recompute
update_review_helpfulness_on_delete(rs, vs, r) ==
    update_counters(rs, r, helpful_count(vs, r), total_count(vs, r))

(***************************************************************************)
(* Request bodies of vote_helpfulness: both keys are optional, and a       *)
(* 'review' key in the body replaces the one taken from the URL            *)
(* (data={'review': review.id, **request.data}).                           *)
(***************************************************************************)
VoteBodies ==
    [review     : {None} \cup {Some(r) : r \in ReviewIds \cup {NoSuchReview}},
     is_helpful : {None} \cup {Some(b) : b \in BOOLEAN}]

\* the 'review' value the serializer receives
vote_data_review(pk, body) ==
    IF IsSome(body.review) THEN Get(body.review) ELSE pk

\* serializer.is_valid(): review must name a row, is_helpful is required
vote_is_valid(pk, body) ==
    /\ vote_data_review(pk, body) \in ReviewIds
    /\ IsSome(body.is_helpful)

\* get_object(): ReviewViewSet.queryset holds approved reviews only
get_object_found(rs, pk) == pk \in ReviewIds /\ rs[pk].is_approved

\* "Prevent voting on own review"
is_own_review(rs, pk, u) == rs[pk].tenant = u

(***************************************************************************)
(* Server workers that serve vote_helpfulness requests concurrently, and   *)
(* the local variables of a request in progress.                           *)
(***************************************************************************)
Workers == {"w1", "w2"}

MaxConcRequests == 2

NoLocal == [user |-> AnonymousUser, review |-> NoSuchReview, is_helpful |-> FALSE,
            helpful_count |-> 0, total_count |-> 0]

(***************************************************************************)
(* vote_helpfulness handled as one step (requests served one at a time).   *)
(***************************************************************************)
\* the 200 response: 'is_helpful': vote.is_helpful and the counters of
\* review, the instance get_object() loaded before the vote was saved
VoteRecorded(created, u, pk, h, review) ==
    [op |-> "vote_helpfulness", status |-> 200, created |-> created,
     user |-> u, target |-> pk, is_helpful |-> h,
     helpful_votes |-> review.helpful_votes, total_votes |-> review.total_votes]

VoteHelpfulness(u, pk, body) ==
    /\ UNCHANGED <<concVars, reportVars, rentalVars>>
    /\ IF ~is_authenticated(u) THEN
           /\ response' = Reply("vote_helpfulness", 401)
           /\ UNCHANGED <<reviews, votes>>
       ELSE IF ~get_object_found(reviews, pk) THEN
           /\ response' = Reply("vote_helpfulness", 404)
           /\ UNCHANGED <<reviews, votes>>
       ELSE IF is_own_review(reviews, pk, u) THEN
           /\ response' = Reply("vote_helpfulness", 400)
           /\ UNCHANGED <<reviews, votes>>
       ELSE IF ~vote_is_valid(pk, body) THEN
           /\ response' = Reply("vote_helpfulness", 400)
           /\ UNCHANGED <<reviews, votes>>
       ELSE
           LET r  == vote_data_review(pk, body)
               h  == Get(body.is_helpful)
               ex == existing_votes(votes, r, u)
           IN  IF ex # {} THEN
                   LET old == CHOOSE x \in ex : TRUE
                       vs  == save_existing(votes, old, h)
                   IN  /\ votes' = vs
                       /\ reviews' = update_review_helpfulness_on_save(reviews, vs, r, FALSE)
                       /\ response' = VoteRecorded(FALSE, u, pk, h, reviews[pk])
               ELSE
                   LET vs == insert_vote(votes, r, u, h)
                   IN  /\ votes' = vs
                       /\ reviews' = update_review_helpfulness_on_save(reviews, vs, r, TRUE)
                       /\ response' = VoteRecorded(TRUE, u, pk, h, reviews[pk])

(***************************************************************************)
(* Deletion of one vote row (cascade from its user), followed by the       *)
(* post_delete receiver.                                                   *)
(***************************************************************************)
DeleteVote(x) ==
    /\ BagIn(x, votes)
    /\ LET vs == votes (-) SetToBag({x})
       IN  /\ votes' = vs
           /\ reviews' = update_review_helpfulness_on_delete(reviews, vs, x.review)
    /\ response' = Reply("delete_vote", 204)
    /\ UNCHANGED <<concVars, reportVars, rentalVars>>

(***************************************************************************)
(* vote_helpfulness served by concurrent workers.  The view's checks and   *)
(* the serializer's lookup, the vote write, the two count queries of the   *)
(* post_save receiver and its counter update are separate store accesses,  *)
(* and no transaction or lock spans them.                                  *)
(***************************************************************************)
Finish(w, status, created) ==
    /\ pc' = [pc EXCEPT ![w] = "idle"]
    /\ local' = [local EXCEPT ![w] = NoLocal]
    /\ response' = [op |-> "vote_helpfulness", status |-> status, created |-> created]

\* the view up to serializer.save(), and create() up to the lookup
BeginVote(w, u, pk, body) ==
    /\ pc[w] = "idle"
    /\ started < MaxConcRequests
    /\ started' = started + 1
    /\ UNCHANGED <<reviews, votes, reportVars, rentalVars>>
    /\ IF ~is_authenticated(u) THEN
           Finish(w, 401, FALSE)
       ELSE IF ~get_object_found(reviews, pk) THEN
           Finish(w, 404, FALSE)
       ELSE IF is_own_review(reviews, pk, u) \/ ~vote_is_valid(pk, body) THEN
           Finish(w, 400, FALSE)
       ELSE
           /\ local' = [local EXCEPT ![w] =
                            [user |-> u, review |-> vote_data_review(pk, body),
                             is_helpful |-> Get(body.is_helpful),
                             helpful_count |-> 0, total_count |-> 0]]
           /\ pc' = [pc EXCEPT ![w] =
                         IF existing_votes(votes, vote_data_review(pk, body), u) # {}
                         THEN "save" ELSE "insert"]
           /\ UNCHANGED response

\* existing_vote.save(): an UPDATE of the row found by the lookup;
\* post_save runs with created = False and the request returns
SaveVote(w) ==
    /\ pc[w] = "save"
    /\ LET l   == local[w]
           old == CHOOSE x \in existing_votes(votes, l.review, l.user) : TRUE
       IN  votes' = save_existing(votes, old, l.is_helpful)
    /\ Finish(w, 200, FALSE)
    /\ UNCHANGED <<reviews, started, reportVars, rentalVars>>

\* super().create(): an INSERT, refused by the store when the pair exists
InsertVote(w) ==
    /\ pc[w] = "insert"
    /\ LET l == local[w]
       IN  IF unique_together_violated(votes, l.review, l.user)
           THEN /\ Finish(w, 500, FALSE)
                /\ UNCHANGED votes
           ELSE /\ votes' = insert_vote(votes, l.review, l.user, l.is_helpful)
                /\ pc' = [pc EXCEPT ![w] = "count_helpful"]
                /\ UNCHANGED <<local, response>>
    /\ UNCHANGED <<reviews, started, reportVars, rentalVars>>

\* helpful_count = review.helpfulness_votes.filter(is_helpful=True).count()
CountHelpful(w) ==
    /\ pc[w] = "count_helpful"
    /\ local' = [local EXCEPT ![w].helpful_count = helpful_count(votes, local[w].review)]
    /\ pc' = [pc EXCEPT ![w] = "count_total"]
    /\ UNCHANGED <<reviews, votes, response, started, reportVars, rentalVars>>

\* total_count = review.helpfulness_votes.count()
CountTotal(w) ==
    /\ pc[w] = "count_total"
    /\ local' = [local EXCEPT ![w].total_count = total_count(votes, local[w].review)]
    /\ pc' = [pc EXCEPT ![w] = "update"]
    /\ UNCHANGED <<reviews, votes, response, started, reportVars, rentalVars>>

\* Review.objects.filter(id=review.id).update(...), then the 200 response
UpdateReview(w) ==
    /\ pc[w] = "update"
    /\ LET l == local[w]
       IN  reviews' = update_counters(reviews, l.review, l.helpful_count, l.total_count)
    /\ Finish(w, 200, TRUE)
    /\ UNCHANGED <<votes, started, reportVars, rentalVars>>

\* A query of the post_save receiver raises (the database is unreachable, a
\* lock wait times out).  Model.save() has sent the INSERT before it sends
\* post_save, the view and the serializer open no transaction, and nothing
\* catches the exception: the request ends in a 500 and the row stays.
RecomputeFails(w) ==
    /\ pc[w] \in {"count_helpful", "count_total", "update"}
    /\ pc' = [pc EXCEPT ![w] = "idle"]
    /\ local' = [local EXCEPT ![w] = NoLocal]
    /\ response' = ReplyTo("vote_helpfulness", 500, local[w].user, local[w].review,
                           "DatabaseError")
    /\ UNCHANGED <<reviews, votes, started, reportVars, rentalVars>>

(***************************************************************************)
(* Text values are sequences of characters, so that strip() and len() are  *)
(* computed rather than assumed.                                           *)
(***************************************************************************)
RECURSIVE lstrip(_)
lstrip(t) == IF t # <<>> /\ Head(t) = " " THEN lstrip(Tail(t)) ELSE t

RECURSIVE rstrip(_)
rstrip(t) ==
    IF t # <<>> /\ t[Len(t)] = " " THEN rstrip(SubSeq(t, 1, Len(t) - 1)) ELSE t

\* str.strip() without the whitespace handling
strip_nothing(t) == t

\* str.strip()
strip(t) == rstrip(lstrip(t))

RECURSIVE Repeat(_, _)
Repeat(c, n) == IF n = 0 THEN <<>> ELSE <<c>> \o Repeat(c, n - 1)

(***************************************************************************)
(* ReviewReport rows.  A new row is open: is_resolved = False, an empty    *)
(* admin_action, no resolved_by and no resolved_at.                        *)
(***************************************************************************)
REPORT_REASONS ==
    {"spam", "inappropriate", "offensive", "personal", "irrelevant", "false", "other"}

ReviewReport(id, r, u, reason, description) ==
    [id |-> id, review |-> r, reporter |-> u, reason |-> reason,
     description |-> description, is_resolved |-> FALSE, admin_action |-> <<>>,
     resolved_by |-> None, resolved_at |-> None]

NoSuchReport == 9

MaxClock == 2

\* the report tables the moderation workflow starts from: empty, or one row
\* as ReviewReportSerializer.create stores it (open, all resolution fields at
\* their defaults), filed by a user who is not the author of the review
SeedTables ==
    { {},
      {ReviewReport(1, 1, "t2", "spam", <<>>)},
      {ReviewReport(1, 2, "l1", "other", Repeat("x", 12))} }

\* tables holding reports of one reporter on both reviews, or of two
\* reporters on one review
SeedPairs ==
    { {ReviewReport(1, 2, "l1", "other", Repeat("x", 12)),
       ReviewReport(2, 1, "l1", "spam", <<>>)},
      {ReviewReport(1, 1, "t2", "spam", <<>>),
       ReviewReport(2, 1, "l1", "spam", <<>>)} }

\* primary key of the next inserted report
next_report_id(rs) ==
    IF rs = {} THEN 1
    ELSE 1 + (CHOOSE m \in {x.id : x \in rs} : \A x \in rs : x.id <= m)

(***************************************************************************)
(* ReviewViewSet.report: filing a report on a review.                      *)
(***************************************************************************)
MinDescriptionLength == 10

ReportBodies ==
    [review      : {None} \cup {Some(r) : r \in ReviewIds},
     reason      : {None, Some("spam"), Some("bogus")},
     description : {None, Some(Repeat("x", 3)), Some(Repeat("x", MinDescriptionLength))}]

\* IsTenantOrReadOnly.has_permission for a POST
tenant_has_permission(u) == is_authenticated(u) /\ user_type[u] = "tenant"

\* IsTenantOrReadOnly.has_object_permission for a POST
has_object_permission(rs, pk, u) == rs[pk].tenant = u \/ user_type[u] = "admin"

\* the own-review check left out
never_own_review(rs, pk, u) == FALSE

\* "Prevent reporting own review"
report_is_own_review(rs, pk, u) == rs[pk].tenant = u

\* the 'review' value the serializer receives
report_data_review(pk, body) ==
    IF IsSome(body.review) THEN Get(body.review) ELSE pk

\* validate_description
validate_description(d) == ~(d # <<>> /\ Len(strip(d)) < MinDescriptionLength)

\* serializer.is_valid()
report_is_valid(pk, body) ==
    /\ report_data_review(pk, body) \in ReviewIds
    /\ IsSome(body.reason) /\ Get(body.reason) \in REPORT_REASONS
    /\ IsSome(body.description) => validate_description(Get(body.description))

\* ReviewReport.objects.filter(review=review, reporter=reporter).exists()
report_exists(rps, r, u) == \E x \in rps : x.review = r /\ x.reporter = u

Report(u, pk, body) ==
    /\ UNCHANGED <<reviews, voteVars, now, rentalVars>>
    /\ IF ~is_authenticated(u) THEN
           /\ response' = Reply("report", 401)
           /\ UNCHANGED reports
       ELSE IF ~tenant_has_permission(u) THEN
           /\ response' = Reply("report", 403)
           /\ UNCHANGED reports
       ELSE IF ~get_object_found(reviews, pk) THEN
           /\ response' = Reply("report", 404)
           /\ UNCHANGED reports
       ELSE IF ~has_object_permission(reviews, pk, u) THEN
           /\ response' = Reply("report", 403)
           /\ UNCHANGED reports
       ELSE IF report_is_own_review(reviews, pk, u) THEN
           /\ response' = Reply("report", 400)
           /\ UNCHANGED reports
       ELSE IF ~report_is_valid(pk, body) THEN
           /\ response' = Reply("report", 400)
           /\ UNCHANGED reports
       ELSE IF report_exists(reports, report_data_review(pk, body), u) THEN
           /\ response' = Reply("report", 400)
           /\ UNCHANGED reports
       ELSE
           /\ reports' = reports \cup
                  {ReviewReport(next_report_id(reports), report_data_review(pk, body), u,
                                Get(body.reason),
                                IF IsSome(body.description)
                                THEN Get(body.description) ELSE <<>>)}
           /\ response' = [op |-> "report", status |-> 201, created |-> TRUE]

(***************************************************************************)
(* AdminReviewReportViewSet: resolve, dismiss and the generic update.      *)
(***************************************************************************)
DismissNote ==
    <<"R","e","p","o","r","t"," ","d","i","s","m","i","s","s","e","d"," ","-"," ",
      "n","o"," ","a","c","t","i","o","n"," ","r","e","q","u","i","r","e","d">>

\* IsAdminUser
IsAdminUser(u) == is_authenticated(u) /\ is_staff[u]

\* get_queryset() filtered by the is_resolved query parameter, then get_object()
admin_report_found(rps, pk, q) ==
    \E x \in rps : x.id = pk /\ (IsSome(q) => x.is_resolved = Get(q))

report_row(rps, pk) == CHOOSE x \in rps : x.id = pk

\* report.save()
save_report(rps, pk, row) == (rps \ {report_row(rps, pk)}) \cup {row}

\* the already-resolved check left out
never_resolved(x) == FALSE

\* "if report.is_resolved"
already_resolved(x) == x.is_resolved

ResolveBodies ==
    [admin_action : {None, Some(<<>>), Some(<<" ">>), Some(<<"a">>), Some(<<" ", "a", " ">>)}]

\* request.data.get('admin_action', '')
data_admin_action(body) ==
    IF IsSome(body.admin_action) THEN Get(body.admin_action) ELSE <<>>

Resolve(u, pk, q, body) ==
    /\ UNCHANGED <<reviews, voteVars, now, rentalVars>>
    /\ IF ~IsAdminUser(u) THEN
           /\ response' = Reply("resolve", 403)
           /\ UNCHANGED reports
       ELSE IF ~admin_report_found(reports, pk, q) THEN
           /\ response' = Reply("resolve", 404)
           /\ UNCHANGED reports
       ELSE IF already_resolved(report_row(reports, pk)) THEN
           /\ response' = Reply("resolve", 400)
           /\ UNCHANGED reports
       ELSE IF strip(data_admin_action(body)) = <<>> THEN
           /\ response' = Reply("resolve", 400)
           /\ UNCHANGED reports
       ELSE
           /\ reports' = save_report(reports, pk,
                  [report_row(reports, pk) EXCEPT
                      !.is_resolved = TRUE,
                      !.admin_action = data_admin_action(body),
                      !.resolved_by = Some(u),
                      !.resolved_at = Some(now)])
           /\ response' = Reply("resolve", 200)

Dismiss(u, pk, q) ==
    /\ UNCHANGED <<reviews, voteVars, now, rentalVars>>
    /\ IF ~IsAdminUser(u) THEN
           /\ response' = Reply("dismiss", 403)
           /\ UNCHANGED reports
       ELSE IF ~admin_report_found(reports, pk, q) THEN
           /\ response' = Reply("dismiss", 404)
           /\ UNCHANGED reports
       ELSE
           /\ reports' = save_report(reports, pk,
                  [report_row(reports, pk) EXCEPT
                      !.is_resolved = TRUE,
                      !.admin_action = DismissNote,
                      !.resolved_by = Some(u),
                      !.resolved_at = Some(now)])
           /\ response' = Reply("dismiss", 200)

\* bodies of PUT/PATCH on a report: the writable resolution fields of
\* AdminReviewReportSerializer (fields = '__all__'); an absent key is None,
\* a JSON null is Some(None)
ReportPatches ==
    [review       : {None} \cup {Some(r) : r \in ReviewIds},
     is_resolved  : {None, Some(TRUE), Some(FALSE)},
     admin_action : {None, Some(<<"b">>)},
     resolved_by  : {None, Some(None), Some(Some("a1"))},
     resolved_at  : {None, Some(None), Some(Some(1))}]

\* ModelSerializer.update(): every key of validated_data is set on the row
apply_patch(row, patch) ==
    [row EXCEPT
        !.review       = IF IsSome(patch.review) THEN Get(patch.review) ELSE @,
        !.is_resolved  = IF IsSome(patch.is_resolved) THEN Get(patch.is_resolved) ELSE @,
        !.admin_action = IF IsSome(patch.admin_action) THEN Get(patch.admin_action) ELSE @,
        !.resolved_by  = IF IsSome(patch.resolved_by) THEN Get(patch.resolved_by) ELSE @,
        !.resolved_at  = IF IsSome(patch.resolved_at) THEN Get(patch.resolved_at) ELSE @]

\* the unique-together constraint left out
report_never_violated(rps, row) == FALSE

\* unique_together = ['review', 'reporter']: another row already holds the
\* pair of the row to be written
report_unique_together_violated(rps, row) ==
    \E x \in rps : x.id # row.id /\ x.review = row.review /\ x.reporter = row.reporter

\* update / partial_update inherited from ModelViewSet; reporter is read-only
\* in AdminReviewReportSerializer, so no unique-together validator runs and a
\* duplicate pair is refused by the database when the row is saved
AdminUpdateReport(u, pk, q, patch) ==
    /\ UNCHANGED <<reviews, voteVars, now, rentalVars>>
    /\ IF ~IsAdminUser(u) THEN
           /\ response' = Reply("update_report", 403)
           /\ UNCHANGED reports
       ELSE IF ~admin_report_found(reports, pk, q) THEN
           /\ response' = Reply("update_report", 404)
           /\ UNCHANGED reports
       ELSE IF report_unique_together_violated(reports,
                                               apply_patch(report_row(reports, pk), patch)) THEN
           /\ response' = Reply("update_report", 500)
           /\ UNCHANGED reports
       ELSE
           /\ reports' = save_report(reports, pk, apply_patch(report_row(reports, pk), patch))
           /\ response' = Reply("update_report", 200)

\* time passes between requests
Tick ==
    /\ now < MaxClock
    /\ now' = now + 1
    /\ response' = NoResponse
    /\ UNCHANGED <<reviews, voteVars, reports, rentalVars>>

(***************************************************************************)
(* ReviewViewSet.create with ReviewCreateSerializer.                       *)
(***************************************************************************)
MinCommentLength == 10

ReviewBodies ==
    [rental  : {None} \cup {Some(k) : k \in RentalIds \cup {NoSuchRental}},
     rating  : {None, Some(0), Some(5)},
     title   : {None, Some(<<"t">>)},
     comment : {None, Some(Repeat("x", 3)), Some(Repeat("x", MinCommentLength))}]

\* validate_rating and the field's choices
validate_rating(value) == ~(value < 1 \/ value > 5)

\* validate_comment
validate_comment(value) == ~(Len(strip(value)) < MinCommentLength)

\* serializer.is_valid(): rental, rating and comment are required, the
\* rental must name a row of any status
review_is_valid(rts, body) ==
    /\ IsSome(body.rental) /\ Get(body.rental) \in DOMAIN rts
    /\ IsSome(body.rating) /\ validate_rating(Get(body.rating))
    /\ IsSome(body.comment) /\ validate_comment(Get(body.comment))

\* the existence check left out
never_reviewed(rs, rental, tenant) == FALSE

\* Review.objects.filter(rental=rental, tenant=tenant).exists()
review_exists(rs, rental, tenant) ==
    \E k \in DOMAIN rs : rs[k].rental = rental /\ rs[k].tenant = tenant

\* the unique-together constraint of the review table left out
review_never_violated(rs, rental, tenant) == FALSE

\* unique_together = ['rental', 'tenant'], enforced by the database on INSERT
review_unique_together_violated(rs, rental, tenant) ==
    \E k \in DOMAIN rs : rs[k].rental = rental /\ rs[k].tenant = tenant

\* primary key of the next inserted review
next_review_id(rs) ==
    IF DOMAIN rs = {} THEN 1
    ELSE 1 + (CHOOSE m \in DOMAIN rs : \A k \in DOMAIN rs : k <= m)

\* super().create(validated_data): the INSERT of the new row
insert_review(rs, u, body) ==
    rs @@ (next_review_id(rs) :>
               Review(Get(body.rental), u, Get(body.rating),
                      IF IsSome(body.title) THEN Get(body.title) ELSE <<>>,
                      Get(body.comment)))

\* the rental a create request names, if any
body_rental(body) == IF IsSome(body.rental) THEN Get(body.rental) ELSE NoSuchRental

\* POST /reviews/ handled as one step
CreateReview(u, body) ==
    /\ UNCHANGED <<voteVars, reportVars, rentalVars>>
    /\ IF ~is_authenticated(u) THEN
           /\ response' = ReplyTo("create_review", 401, u, body_rental(body), "")
           /\ UNCHANGED reviews
       ELSE IF ~tenant_has_permission(u) THEN
           /\ response' = ReplyTo("create_review", 403, u, body_rental(body), "")
           /\ UNCHANGED reviews
       ELSE IF ~review_is_valid(rentals, body) THEN
           /\ response' = ReplyTo("create_review", 400, u, body_rental(body), "invalid")
           /\ UNCHANGED reviews
       ELSE IF review_exists(reviews, Get(body.rental), u) THEN
           /\ response' = ReplyTo("create_review", 400, u, body_rental(body),
                                  "already reviewed")
           /\ UNCHANGED reviews
       ELSE IF review_unique_together_violated(reviews, Get(body.rental), u) THEN
           /\ response' = ReplyTo("create_review", 500, u, body_rental(body),
                                  "IntegrityError")
           /\ UNCHANGED reviews
       ELSE
           /\ reviews' = insert_review(reviews, u, body)
           /\ response' = ReplyTo("create_review", 201, u, body_rental(body), "")

(***************************************************************************)
(* POST /reviews/ served by concurrent workers: the serializer's existence *)
(* check and the INSERT are separate store accesses with no transaction or *)
(* lock around them.                                                       *)
(***************************************************************************)
FinishCreate(w, status, detail) ==
    /\ pc' = [pc EXCEPT ![w] = "idle"]
    /\ local' = [local EXCEPT ![w] = NoLocal]
    /\ response' = ReplyTo("create_review", status, local[w].user, local[w].rental, detail)

\* the view up to serializer.is_valid()
BeginCreate(w, u, body) ==
    /\ pc[w] = "idle"
    /\ started < MaxConcRequests
    /\ started' = started + 1
    /\ UNCHANGED <<reviews, votes, reportVars, rentalVars>>
    /\ IF ~is_authenticated(u) THEN
           /\ response' = ReplyTo("create_review", 401, u, body_rental(body), "")
           /\ UNCHANGED <<pc, local>>
       ELSE IF ~tenant_has_permission(u) THEN
           /\ response' = ReplyTo("create_review", 403, u, body_rental(body), "")
           /\ UNCHANGED <<pc, local>>
       ELSE IF ~review_is_valid(rentals, body) THEN
           /\ response' = ReplyTo("create_review", 400, u, body_rental(body), "invalid")
           /\ UNCHANGED <<pc, local>>
       ELSE
           /\ local' = [local EXCEPT ![w] = [user |-> u, rental |-> Get(body.rental),
                                             body |-> body]]
           /\ pc' = [pc EXCEPT ![w] = "check_review"]
           /\ UNCHANGED response

\* create(): the existence check
CheckReview(w) ==
    /\ pc[w] = "check_review"
    /\ UNCHANGED <<reviews, votes, started, reportVars, rentalVars>>
    /\ IF review_exists(reviews, local[w].rental, local[w].user)
       THEN FinishCreate(w, 400, "already reviewed")
       ELSE /\ pc' = [pc EXCEPT ![w] = "insert_review"]
            /\ UNCHANGED <<local, response>>

\* create(): super().create(validated_data)
InsertReview(w) ==
    /\ pc[w] = "insert_review"
    /\ UNCHANGED <<votes, started, reportVars, rentalVars>>
    /\ IF review_unique_together_violated(reviews, local[w].rental, local[w].user)
       THEN /\ FinishCreate(w, 500, "IntegrityError")
            /\ UNCHANGED reviews
       ELSE /\ reviews' = insert_review(reviews, local[w].user, local[w].body)
            /\ FinishCreate(w, 201, "")

(***************************************************************************)
(* LandlordResponseView.post with LandlordResponseSerializer.              *)
(***************************************************************************)
MinResponseLength == 10

\* bodies of the response request: the key may be absent (the serializer
\* is partial), blank, too short, or a text of sufficient length
ResponseBodies ==
    [landlord_response :
        {None, Some(<<" ">>), Some(Repeat("x", 3)),
         Some(Repeat("x", MinResponseLength)), Some(<<" ">> \o Repeat("y", MinResponseLength))}]

\* get_object_or_404(Review, id=review_id): any review, approved or not
review_found(rs, review_id) == review_id \in DOMAIN rs

\* the landlord check passed by everyone
any_user_is_landlord(rs, rts, review_id, u) == TRUE

\* request.user == review.rental.landlord
is_rental_landlord(rs, rts, review_id, u) == rts[rs[review_id].rental].landlord = u

\* the already-responded check left out
never_responded(row) == FALSE

\* "if review.landlord_response"
has_responded(row) == row.landlord_response # <<>>

\* the CharField hands the text over with surrounding whitespace removed
to_internal_value(text) == strip(text)

\* validate_landlord_response
validate_landlord_response(value) ==
    /\ strip(value) # <<>>
    /\ ~(Len(strip(value)) < MinResponseLength)

\* serializer.is_valid() with partial=True: an absent key is accepted
response_is_valid(body) ==
    IsSome(body.landlord_response) =>
        validate_landlord_response(to_internal_value(Get(body.landlord_response)))

\* LandlordResponseSerializer.update: the date is stamped in the same save
update_response(row, body, t) ==
    [row EXCEPT
        !.landlord_response = IF IsSome(body.landlord_response)
                              THEN to_internal_value(Get(body.landlord_response)) ELSE @,
        !.landlord_response_date = Some(t),
        !.updated_at = t]

LandlordResponse(u, review_id, body) ==
    /\ UNCHANGED <<voteVars, reportVars, rentalVars>>
    /\ IF ~is_authenticated(u) THEN
           /\ response' = ReplyTo("landlord_response", 401, u, review_id, "")
           /\ UNCHANGED reviews
       ELSE IF ~review_found(reviews, review_id) THEN
           /\ response' = ReplyTo("landlord_response", 404, u, review_id, "")
           /\ UNCHANGED reviews
       ELSE IF ~is_rental_landlord(reviews, rentals, review_id, u) THEN
           /\ response' = ReplyTo("landlord_response", 403, u, review_id, "")
           /\ UNCHANGED reviews
       ELSE IF has_responded(reviews[review_id]) THEN
           /\ response' = ReplyTo("landlord_response", 400, u, review_id,
                                  "already responded")
           /\ UNCHANGED reviews
       ELSE IF ~response_is_valid(body) THEN
           /\ response' = ReplyTo("landlord_response", 400, u, review_id, "invalid")
           /\ UNCHANGED reviews
       ELSE
           /\ reviews' = [reviews EXCEPT
                              ![review_id] = update_response(reviews[review_id], body, now)]
           /\ response' = ReplyTo("landlord_response", 200, u, review_id, "")

(***************************************************************************)
(* RentalSearchSerializer: the query parameters of the rental list.  A     *)
(* parameter is absent (None) or carries its parsed value: prices are      *)
(* whole amounts, coordinates whole degrees, distances whole miles, dates  *)
(* day numbers.                                                            *)
(***************************************************************************)
ORDERING_CHOICES ==
    {"created_at", "-created_at", "price", "-price", "distance_to_campus", "-views_count"}

NoParams ==
    [query |-> None, city |-> None, state |-> None, property_type |-> None,
     min_price |-> None, max_price |-> None, bedrooms |-> None, bathrooms |-> None,
     pets_allowed |-> None, parking_available |-> None, furnishing_status |-> None,
     utilities_included |-> None, max_distance_to_campus |-> None,
     shuttle_service |-> None, available_from |-> None,
     latitude |-> None, longitude |-> None, radius |-> None, ordering |-> None]

\* Python truthiness of an optional number, flag and text
truthy_number(o) == IsSome(o) /\ Get(o) # 0

truthy_flag(o) == IsSome(o) /\ Get(o)

truthy_text(o) == IsSome(o) /\ Get(o) # <<>>

\* the declared fields: choices, min_value and max_value
fields_are_valid(q) ==
    /\ IsSome(q.property_type) => Get(q.property_type) \in PROPERTY_TYPES
    /\ IsSome(q.bedrooms) => Get(q.bedrooms) >= 0
    /\ IsSome(q.bathrooms) => Get(q.bathrooms) >= 1
    /\ IsSome(q.furnishing_status) => Get(q.furnishing_status) \in FURNISHING_STATUS
    /\ IsSome(q.max_distance_to_campus) => Get(q.max_distance_to_campus) >= 0
    /\ IsSome(q.latitude) => (Get(q.latitude) >= -90 /\ Get(q.latitude) <= 90)
    /\ IsSome(q.longitude) => (Get(q.longitude) >= -180 /\ Get(q.longitude) <= 180)
    /\ IsSome(q.radius) => (Get(q.radius) >= 1 /\ Get(q.radius) <= 50)
    /\ IsSome(q.ordering) => Get(q.ordering) \in ORDERING_CHOICES

\* validate(): "if min_price and max_price and min_price > max_price"
price_range_error(q) ==
    /\ truthy_number(q.min_price) /\ truthy_number(q.max_price)
    /\ Get(q.min_price) > Get(q.max_price)

\* validate(): "if any([latitude, longitude, radius]): if not all([...])"
location_error(q) ==
    /\ truthy_number(q.latitude) \/ truthy_number(q.longitude) \/ truthy_number(q.radius)
    /\ ~(truthy_number(q.latitude) /\ truthy_number(q.longitude)
           /\ truthy_number(q.radius))

\* search_params.is_valid()
search_is_valid(q) ==
    fields_are_valid(q) /\ ~price_range_error(q) /\ ~location_error(q)

(***************************************************************************)
(* RentalViewSet.get_queryset: the rows the list and the detail view read. *)
(* The result is the set of rows; their order is settled separately, by    *)
(* queryset_ordering and filter_queryset_ordering below.                   *)
(***************************************************************************)
lower_char(c) ==
    CASE c = "A" -> "a" [] c = "B" -> "b" [] c = "C" -> "c"
      [] c = "D" -> "d" [] c = "E" -> "e" [] OTHER -> c

lower(t) == [i \in 1..Len(t) |-> lower_char(t[i])]

contains(hay, needle) ==
    \E i \in 0..(Len(hay) - Len(needle)) : SubSeq(hay, i + 1, i + Len(needle)) = needle

\* the icontains lookup
icontains(hay, needle) == contains(lower(hay), lower(needle))

Abs(x) == IF x < 0 THEN -x ELSE x

\* the status filter left out
all_rentals(rts) == DOMAIN rts

\* RentalViewSet.queryset: filter(status__in=['available', 'rented'])
visible_rentals(rts) == {k \in DOMAIN rts : rts[k].status \in {"available", "rented"}}

\* latitude__range and longitude__range around the point, with
\* lat_delta = radius / 69 and lon_delta = radius / (69 * abs(lat / 90))
in_bounding_box(r, lat, lon, radius) ==
    /\ IsSome(r.latitude) /\ IsSome(r.longitude)
    /\ 69 * Abs(Get(r.latitude) - lat) <= radius
    /\ 69 * Abs(lat) * Abs(Get(r.longitude) - lon) <= 90 * radius

\* the filters get_queryset applies to one row when the parameters are valid
passes_filters(r, q) ==
    /\ truthy_text(q.query) =>
           \/ icontains(r.title, Get(q.query)) \/ icontains(r.description, Get(q.query))
           \/ icontains(r.address, Get(q.query)) \/ icontains(r.city, Get(q.query))
    /\ truthy_text(q.city) => icontains(r.city, Get(q.city))
    /\ truthy_text(q.state) => icontains(r.state, Get(q.state))
    /\ IsSome(q.property_type) => r.property_type = Get(q.property_type)
    /\ truthy_number(q.min_price) => r.price >= Get(q.min_price)
    /\ truthy_number(q.max_price) => r.price <= Get(q.max_price)
    /\ IsSome(q.bedrooms) => r.bedrooms = Get(q.bedrooms)
    /\ truthy_number(q.bathrooms) => r.bathrooms >= Get(q.bathrooms)
    /\ truthy_flag(q.pets_allowed) => r.pets_allowed
    /\ truthy_flag(q.parking_available) => r.parking_available
    /\ IsSome(q.furnishing_status) => r.furnishing_status = Get(q.furnishing_status)
    /\ truthy_flag(q.utilities_included) => r.utilities_included
    /\ truthy_flag(q.shuttle_service) => r.shuttle_service
    /\ truthy_number(q.max_distance_to_campus) =>
           (IsSome(r.distance_to_campus)
              /\ Get(r.distance_to_campus) <= Get(q.max_distance_to_campus))
    /\ IsSome(q.available_from) => r.available_from <= Get(q.available_from)
    /\ (truthy_number(q.latitude) /\ truthy_number(q.longitude) /\ truthy_number(q.radius)) =>
           in_bounding_box(r, Get(q.latitude), Get(q.longitude), Get(q.radius))

\* "if search_params.is_valid(): ... return queryset"
get_queryset(rts, q) ==
    IF search_is_valid(q)
    THEN {k \in visible_rentals(rts) : passes_filters(rts[k], q)}
    ELSE visible_rentals(rts)

(***************************************************************************)
(* The order of the list.  A term of order_by is a column name, with "-"   *)
(* in front for descending.  get_queryset orders by the serializer's       *)
(* validated "ordering" (default '-created_at'); the list view then runs   *)
(* filter_queryset, whose OrderingFilter reads the raw "ordering"          *)
(* parameter, keeps it if its column is one of the view's ordering_fields  *)
(* and otherwise takes the view's default, and calls order_by again, which *)
(* replaces the order get_queryset chose.                                  *)
(***************************************************************************)
\* RentalViewSet.ordering_fields
ordering_fields == {"price", "created_at", "available_from", "views_count"}

\* RentalViewSet.ordering
view_ordering == "-created_at"

\* Rental.Meta.ordering
meta_ordering == "-created_at"

\* the terms a request may carry
OrderingTerms ==
    {"price", "-price", "created_at", "-created_at", "available_from", "-available_from",
     "views_count", "-views_count", "distance_to_campus", "-distance_to_campus"}

is_descending(term) ==
    term \in {"-price", "-created_at", "-available_from", "-views_count",
              "-distance_to_campus"}

\* term.lstrip('-')
ordering_column(term) ==
    CASE term \in {"price", "-price"} -> "price"
      [] term \in {"created_at", "-created_at"} -> "created_at"
      [] term \in {"available_from", "-available_from"} -> "available_from"
      [] term \in {"views_count", "-views_count"} -> "views_count"
      [] term \in {"distance_to_campus", "-distance_to_campus"} -> "distance_to_campus"
      [] OTHER -> term

\* get_queryset: "if data.get('ordering'): queryset.order_by(data['ordering'])";
\* without it the queryset keeps the model's Meta ordering
queryset_ordering(q) ==
    IF search_is_valid(q)
    THEN IF IsSome(q.ordering) THEN Get(q.ordering) ELSE "-created_at"
    ELSE meta_ordering

\* OrderingFilter.get_ordering: the requested term when its column is an
\* ordering field, else the view's default ordering
get_ordering(q) ==
    IF IsSome(q.ordering) /\ ordering_column(Get(q.ordering)) \in ordering_fields
    THEN Some(Get(q.ordering))
    ELSE Some(view_ordering)

\* OrderingFilter.filter_queryset: "if ordering: return queryset.order_by(*ordering)"
filter_queryset_ordering(q) ==
    IF IsSome(get_ordering(q)) THEN Get(get_ordering(q)) ELSE queryset_ordering(q)

\* ORDER BY: row a may stand before row b.  Rows with equal values may stand
\* either way round, and so may a row with a NULL, whose place depends on
\* the database.
may_precede(a, b, term) ==
    LET col == ordering_column(term)
    IN  IF col = "distance_to_campus" /\ (a[col] = None \/ b[col] = None) THEN TRUE
        ELSE LET x == IF col = "distance_to_campus" THEN Get(a[col]) ELSE a[col]
                 y == IF col = "distance_to_campus" THEN Get(b[col]) ELSE b[col]
             IN  IF is_descending(term) THEN x >= y ELSE x <= y

\* the sequences the database may return for the rows S under ORDER BY
\* term: a row that may precede all the others, then the others in order
RECURSIVE order_by(_, _, _)
order_by(rts, S, term) ==
    IF S = {} THEN {<<>>}
    ELSE UNION { {<<k>> \o rest : rest \in order_by(rts, S \ {k}, term)} :
                 k \in {h \in S : \A j \in S : may_precede(rts[h], rts[j], term)} }

(***************************************************************************)
(* RentalViewSet.list and RentalViewSet.retrieve.                          *)
(***************************************************************************)
MaxViews == 1

\* the outcome of a read: the parameters it carried, the rows it returned
\* and, for a list, the sequence they were returned in
Listing(op, status, u, target, q, results, rows) ==
    [op |-> op, status |-> status, created |-> FALSE, user |-> u, target |-> target,
     params |-> q, results |-> results, rows |-> rows]

\* GET /properties/: get_queryset never raises, the list is always served;
\* list() is filter_queryset(get_queryset())
List(u, q) ==
    /\ \E rows \in order_by(rentals, get_queryset(rentals, q), filter_queryset_ordering(q)) :
           response' = Listing("list", 200, u, NoSuchRental, q,
                               get_queryset(rentals, q), rows)
    /\ UNCHANGED <<reviews, voteVars, reportVars, rentalVars>>

\* "if not (request.user.is_authenticated and request.user == rental.landlord)"
counts_as_view(rts, pk, u) == ~(is_authenticated(u) /\ rts[pk].landlord = u)

\* the counter written from the instance the request loaded
increment_loaded_views(rts, pk, self) ==
    [rts EXCEPT ![pk].views_count = self.views_count + 1]

\* increment_views(): views_count = F('views_count') + 1, saved at once:
\* one UPDATE that adds 1 to the stored value, whatever the instance holds
increment_views(rts, pk, self) == [rts EXCEPT ![pk].views_count = @ + 1]

\* GET /properties/{pk}/.  After increment_views() the instance holds the
\* F() expression in views_count: the serializer either fails on it (500)
\* or reads the refreshed number (200), depending on the framework release.
Retrieve(u, pk, q) ==
    /\ UNCHANGED <<reviews, voteVars, reportVars, favorites, images>>
    /\ IF pk \notin get_queryset(rentals, q) THEN
           /\ response' = Listing("retrieve", 404, u, pk, q, {}, <<>>)
           /\ UNCHANGED rentals
       ELSE IF ~counts_as_view(rentals, pk, u) THEN
           /\ response' = Listing("retrieve", 200, u, pk, q, {pk}, <<>>)
           /\ UNCHANGED rentals
       ELSE
           /\ rentals[pk].views_count < MaxViews
           /\ rentals' = increment_views(rentals, pk, rentals[pk])
           /\ \/ response' = Listing("retrieve", 200, u, pk, q, {pk}, <<>>)
              \/ response' = Listing("retrieve", 500, u, pk, q, {}, <<>>)

(***************************************************************************)
(* RentalViewSet.toggle_favorite.                                          *)
(***************************************************************************)
RentalFavorite(u, rental) == [user |-> u, rental |-> rental]

\* the lookup finding nothing
favorite_never_exists(fs, u, rental) == FALSE

\* get_or_create: the lookup by (user, rental)
favorite_exists(fs, u, rental) == BagIn(RentalFavorite(u, rental), fs)

\* POST /properties/{pk}/toggle_favorite/: get_object() reads the visible
\* rentals; get_or_create returns the row with created = False, or inserts
\* it; a row that was not created is deleted
ToggleFavorite(u, pk) ==
    /\ UNCHANGED <<reviews, voteVars, reportVars, rentals, images>>
    /\ IF ~is_authenticated(u) THEN
           /\ response' = ReplyTo("toggle_favorite", 401, u, pk, <<>>)
           /\ UNCHANGED favorites
       ELSE IF pk \notin get_queryset(rentals, NoParams) THEN
           /\ response' = ReplyTo("toggle_favorite", 404, u, pk, <<>>)
           /\ UNCHANGED favorites
       ELSE IF favorite_exists(favorites, u, pk) THEN
           /\ favorites' = favorites (-) SetToBag({RentalFavorite(u, pk)})
           /\ response' = ReplyTo("toggle_favorite", 200, u, pk, <<>>)
       ELSE
           /\ favorites' = favorites (+) SetToBag({RentalFavorite(u, pk)})
           /\ response' = ReplyTo("toggle_favorite", 201, u, pk, <<>>)

(***************************************************************************)
(* RentalImage rows, RentalImage.save() and RentalImageViewSet.            *)
(***************************************************************************)
RentalImage(rental, is_primary, order) ==
    [rental |-> rental, is_primary |-> is_primary, order |-> order]

NoSuchImage == 9

\* the images RentalCreateSerializer.create stores with a new rental: order
\* idx, the first one primary
created_images(rental, first_pk, n) ==
    [k \in first_pk..(first_pk + n - 1) |->
        RentalImage(rental, k = first_pk, k - first_pk)]

\* the row written without a look at the other images
save_image_only(imgs, pk, row) == [imgs EXCEPT ![pk] = row]

\* RentalImage.save(): a primary image first clears is_primary of the other
\* primary images of its rental, then the row is written
save_image(imgs, pk, row) ==
    [k \in DOMAIN imgs |->
        IF k = pk THEN row
        ELSE IF row.is_primary /\ imgs[k].rental = row.rental /\ imgs[k].is_primary
             THEN [imgs[k] EXCEPT !.is_primary = FALSE]
             ELSE imgs[k]]

\* RentalImageViewSet.get_queryset with the rental_id parameter, then
\* get_object()
image_found(imgs, pk, q) ==
    /\ pk \in DOMAIN imgs
    /\ truthy_number(q) => imgs[pk].rental = Get(q)

\* RentalImage.objects.filter(rental=image.rental).update(is_primary=False)
clear_primary(imgs, rental) ==
    [k \in DOMAIN imgs |->
        IF imgs[k].rental = rental THEN [imgs[k] EXCEPT !.is_primary = FALSE] ELSE imgs[k]]

\* POST /images/{pk}/set_primary/
SetPrimary(u, pk, q) ==
    /\ UNCHANGED <<reviews, voteVars, reportVars, rentals, favorites>>
    /\ IF ~is_authenticated(u) THEN
           /\ response' = ReplyTo("set_primary", 401, u, pk, <<>>)
           /\ UNCHANGED images
       ELSE IF ~image_found(images, pk, q) THEN
           /\ response' = ReplyTo("set_primary", 404, u, pk, <<>>)
           /\ UNCHANGED images
       ELSE IF rentals[images[pk].rental].landlord # u THEN
           /\ response' = ReplyTo("set_primary", 403, u, pk, <<>>)
           /\ UNCHANGED images
       ELSE
           /\ images' = save_image(clear_primary(images, images[pk].rental), pk,
                                   [images[pk] EXCEPT !.is_primary = TRUE])
           /\ response' = ReplyTo("set_primary", 200, u, pk, <<>>)

\* bodies of PATCH /images/{pk}/: the writable field is_primary, absent or
\* given
ImagePatches == [is_primary : {None, Some(TRUE), Some(FALSE)}]

\* PATCH /images/{pk}/: the generic partial_update, open to every
\* authenticated user; serializer.save() ends in RentalImage.save()
UpdateImage(u, pk, q, patch) ==
    /\ UNCHANGED <<reviews, voteVars, reportVars, rentals, favorites>>
    /\ IF ~is_authenticated(u) THEN
           /\ response' = ReplyTo("update_image", 401, u, pk, <<>>)
           /\ UNCHANGED images
       ELSE IF ~image_found(images, pk, q) THEN
           /\ response' = ReplyTo("update_image", 404, u, pk, <<>>)
           /\ UNCHANGED images
       ELSE
           /\ images' = save_image(images, pk,
                  [images[pk] EXCEPT
                      !.is_primary = IF IsSome(patch.is_primary)
                                     THEN Get(patch.is_primary) ELSE @])
           /\ response' = ReplyTo("update_image", 200, u, pk, <<>>)

\* POST /images/: RentalImageSerializer has no rental field, so
\* perform_create's validated_data['rental'] raises KeyError for every
\* valid body, and no image is stored through this endpoint
CreateImage(u, has_file) ==
    /\ UNCHANGED <<reviews, voteVars, reportVars, rentalVars>>
    /\ response' = ReplyTo("create_image",
                           IF ~is_authenticated(u) THEN 401
                           ELSE IF ~has_file THEN 400 ELSE 500,
                           u, NoSuchImage, <<>>)

(***************************************************************************)
(* retrieve handled by concurrent workers.  A request touches the store    *)
(* twice: get_object() loads the row, increment_views() issues the UPDATE; *)
(* the test of the requester lies between them and the serializer after.   *)
(***************************************************************************)
FinishRetrieve(w, status) ==
    /\ pc' = [pc EXCEPT ![w] = "idle"]
    /\ local' = [local EXCEPT ![w] = NoLocal]
    /\ response' = Listing("retrieve", status, local[w].user, local[w].rental, NoParams,
                           IF status = 200 THEN {local[w].rental} ELSE {}, <<>>)

\* rental = self.get_object()
BeginRetrieve(w, u, pk) ==
    /\ pc[w] = "idle"
    /\ started < MaxConcRequests
    /\ started' = started + 1
    /\ UNCHANGED <<reviews, votes, reportVars, rentalVars>>
    /\ IF pk \notin get_queryset(rentals, NoParams) THEN
           /\ response' = Listing("retrieve", 404, u, pk, NoParams, {}, <<>>)
           /\ UNCHANGED <<pc, local>>
       ELSE
           /\ local' = [local EXCEPT ![w] = [user |-> u, rental |-> pk,
                                             self |-> rentals[pk], counted |-> FALSE]]
           /\ pc' = [pc EXCEPT ![w] = "loaded"]
           /\ UNCHANGED response

\* "if not (...): rental.increment_views()"
IncrementViews(w) ==
    /\ pc[w] = "loaded"
    /\ pc' = [pc EXCEPT ![w] = "serialize"]
    /\ UNCHANGED <<reviews, votes, reportVars, started, response, favorites, images>>
    /\ IF counts_as_view(rentals, local[w].rental, local[w].user) THEN
           /\ rentals' = increment_views(rentals, local[w].rental, local[w].self)
           /\ local' = [local EXCEPT ![w].counted = TRUE]
       ELSE
           UNCHANGED <<rentals, local>>

\* Response(self.get_serializer(rental).data): after increment_views() the
\* instance holds the F() expression (see Retrieve)
SerializeRental(w) ==
    /\ pc[w] = "serialize"
    /\ UNCHANGED <<reviews, votes, reportVars, started, rentalVars>>
    /\ \/ FinishRetrieve(w, 200)
       \/ local[w].counted /\ FinishRetrieve(w, 500)

(***************************************************************************)
(* AdminReviewViewSet: the moderation flags of a review.                   *)
(***************************************************************************)
\* the is_approved and is_verified query parameters a moderation request
\* may carry
NoFlags == [is_approved |-> None, is_verified |-> None]

FlagFilters == {NoFlags, [NoFlags EXCEPT !.is_approved = Some(TRUE)],
                [NoFlags EXCEPT !.is_verified = Some(FALSE)]}

\* AdminReviewViewSet.get_queryset, then get_object()
admin_review_found(rs, pk, q) ==
    /\ pk \in DOMAIN rs
    /\ IsSome(q.is_approved) => rs[pk].is_approved = Get(q.is_approved)
    /\ IsSome(q.is_verified) => rs[pk].is_verified = Get(q.is_verified)

\* both flags negated
toggled_both(row, flag) ==
    [row EXCEPT !.is_approved = ~@, !.is_verified = ~@]

\* "review.is_approved = not review.is_approved"
toggled(row, flag) == [row EXCEPT ![flag] = ~@]

\* review.save(): Review.save() fills an empty title, auto_now stamps
\* updated_at, and the row is written with every field of the instance
save_review(rs, pk, row, t) ==
    [rs EXCEPT ![pk] = [row EXCEPT !.title = save_title(row.rating, row.title),
                                   !.updated_at = t]]

ToggleApproval(u, pk, q) ==
    /\ UNCHANGED <<voteVars, reportVars, rentalVars>>
    /\ IF ~IsAdminUser(u) THEN
           /\ response' = ReplyTo("toggle_approval", 403, u, pk, <<>>)
           /\ UNCHANGED reviews
       ELSE IF ~admin_review_found(reviews, pk, q) THEN
           /\ response' = ReplyTo("toggle_approval", 404, u, pk, <<>>)
           /\ UNCHANGED reviews
       ELSE
           /\ reviews' = save_review(reviews, pk, toggled(reviews[pk], "is_approved"), now)
           /\ response' = ReplyTo("toggle_approval", 200, u, pk, <<>>)

ToggleVerification(u, pk, q) ==
    /\ UNCHANGED <<voteVars, reportVars, rentalVars>>
    /\ IF ~IsAdminUser(u) THEN
           /\ response' = ReplyTo("toggle_verification", 403, u, pk, <<>>)
           /\ UNCHANGED reviews
       ELSE IF ~admin_review_found(reviews, pk, q) THEN
           /\ response' = ReplyTo("toggle_verification", 404, u, pk, <<>>)
           /\ UNCHANGED reviews
       ELSE
           /\ reviews' = save_review(reviews, pk, toggled(reviews[pk], "is_verified"), now)
           /\ response' = ReplyTo("toggle_verification", 200, u, pk, <<>>)

(***************************************************************************)
(* The public read endpoints of the reviews.  The tables of the model hold *)
(* fewer than ten reviews, so the [:10] of recent_reviews and              *)
(* top_rated_reviews cuts nothing off.  A read leaves every table as it    *)
(* is.                                                                     *)
(***************************************************************************)
\* the query parameters of the review list: rental_id, min_rating (a
\* number) and verified_only
NoReviewParams == [rental_id |-> None, min_rating |-> None, verified_only |-> None]

\* the is_approved filter left out
every_review(rs) == DOMAIN rs

\* ReviewViewSet.queryset and the function views: filter(is_approved=True)
approved_reviews(rs) == {r \in DOMAIN rs : rs[r].is_approved}

\* ReviewViewSet.get_queryset
review_get_queryset(rs, q) ==
    {r \in approved_reviews(rs) :
        /\ truthy_number(q.rental_id) => rs[r].rental = Get(q.rental_id)
        /\ IsSome(q.min_rating) => rs[r].rating >= Get(q.min_rating)
        /\ truthy_flag(q.verified_only) => rs[r].is_verified}

\* GET /reviews/
ListReviews(u, q) ==
    /\ response' = Listing("review_list", 200, u, NoSuchReview, q,
                           review_get_queryset(reviews, q), <<>>)
    /\ UNCHANGED <<reviews, voteVars, reportVars, rentalVars>>

\* GET /reviews/{pk}/
RetrieveReview(u, pk, q) ==
    /\ response' = IF pk \in review_get_queryset(reviews, q)
                   THEN Listing("review_retrieve", 200, u, pk, q, {pk}, <<>>)
                   ELSE Listing("review_retrieve", 404, u, pk, q, {}, <<>>)
    /\ UNCHANGED <<reviews, voteVars, reportVars, rentalVars>>

\* rental_reviews: get_object_or_404(Rental, id=rental_id), then the approved
\* reviews of the rental
RentalReviews(u, rental_id) ==
    /\ response' =
           IF rental_id \in DOMAIN rentals
           THEN Listing("rental_reviews", 200, u, rental_id, NoReviewParams,
                        {r \in approved_reviews(reviews) : reviews[r].rental = rental_id},
                        <<>>)
           ELSE Listing("rental_reviews", 404, u, rental_id, NoReviewParams, {}, <<>>)
    /\ UNCHANGED <<reviews, voteVars, reportVars, rentalVars>>

\* recent_reviews
RecentReviews(u) ==
    /\ response' = Listing("recent_reviews", 200, u, NoSuchReview, NoReviewParams,
                           approved_reviews(reviews), <<>>)
    /\ UNCHANGED <<reviews, voteVars, reportVars, rentalVars>>

\* top_rated_reviews: filter(is_approved=True, rating__gte=4)
TopRatedReviews(u) ==
    /\ response' = Listing("top_rated_reviews", 200, u, NoSuchReview, NoReviewParams,
                           {r \in approved_reviews(reviews) : reviews[r].rating >= 4},
                           <<>>)
    /\ UNCHANGED <<reviews, voteVars, reportVars, rentalVars>>

\* requesters whose votes the vote specifications explore
Voters == {"t1", "a1", AnonymousUser}

InitReviews ==
    /\ reviews \in {[r \in ReviewIds |->
                        [Review(r, ReviewAuthor[r], 4, <<>>, Repeat("x", 10))
                            EXCEPT !.is_approved = a[r]]] :
                    a \in {f \in [ReviewIds -> BOOLEAN] : f[1]}}
    /\ rentals = ReviewedRentals
    /\ favorites = EmptyBag
    /\ images = <<>>
    /\ votes = EmptyBag
    /\ response = NoResponse
    /\ pc = [w \in Workers |-> "idle"]
    /\ local = [w \in Workers |-> NoLocal]
    /\ started = 0
    /\ now = 1

Init ==
    /\ InitReviews
    /\ reports = {}

\* a request that is refused before its body is read is explored with the
\* empty body only: the handler's outcome does not depend on the body then
VoteBodiesRead(u, pk) ==
    IF is_authenticated(u) /\ get_object_found(reviews, pk) /\ ~is_own_review(reviews, pk, u)
    THEN VoteBodies
    ELSE {[review |-> None, is_helpful |-> None]}

Next ==
    \/ \E u \in Voters, pk \in ReviewIds \cup {NoSuchReview} :
           \E body \in VoteBodiesRead(u, pk) : VoteHelpfulness(u, pk, body)
    \/ \E x \in BagToSet(votes) : DeleteVote(x)

Spec == Init /\ [][Next]_vars

NextConcurrent ==
    \/ \E w \in Workers, u \in Voters, pk \in ReviewIds :
           \E body \in VoteBodiesRead(u, pk) : BeginVote(w, u, pk, body)
    \/ \E w \in Workers : SaveVote(w)
    \/ \E w \in Workers : InsertVote(w)
    \/ \E w \in Workers : CountHelpful(w)
    \/ \E w \in Workers : CountTotal(w)
    \/ \E w \in Workers : UpdateReview(w)

SpecConcurrent == Init /\ [][NextConcurrent]_vars

\* the same requests on a store whose queries may fail
NextFailing ==
    \/ \E w \in Workers, u \in Voters, pk \in ReviewIds :
           \E body \in VoteBodiesRead(u, pk) : BeginVote(w, u, pk, body)
    \/ \E w \in Workers : SaveVote(w)
    \/ \E w \in Workers : InsertVote(w)
    \/ \E w \in Workers : CountHelpful(w)
    \/ \E w \in Workers : CountTotal(w)
    \/ \E w \in Workers : UpdateReview(w)
    \/ \E w \in Workers : RecomputeFails(w)

SpecFailing == Init /\ [][NextFailing]_vars

\* requesters of the moderation endpoints: the administrator and a tenant
AdminRequesters == {"a1", "t1"}

QueryFilters == {None, Some(TRUE), Some(FALSE)}

ReportPks == {1, NoSuchReport}

InitReports ==
    /\ InitReviews
    /\ reports \in SeedTables

ReportBodiesRead(u, pk) ==
    IF /\ tenant_has_permission(u) /\ get_object_found(reviews, pk)
       /\ has_object_permission(reviews, pk, u) /\ ~report_is_own_review(reviews, pk, u)
    THEN ReportBodies
    ELSE {[review |-> None, reason |-> None, description |-> None]}

ResolveBodiesRead(u, pk, q) ==
    IF /\ IsAdminUser(u) /\ admin_report_found(reports, pk, q)
       /\ ~already_resolved(report_row(reports, pk))
    THEN ResolveBodies
    ELSE {[admin_action |-> None]}

NoPatch ==
    [review |-> None, is_resolved |-> None, admin_action |-> None,
     resolved_by |-> None, resolved_at |-> None]

\* patches that rewrite the resolution fields
ReportPatchesRead(u, pk, q) ==
    IF IsAdminUser(u) /\ admin_report_found(reports, pk, q)
    THEN {p \in ReportPatches : p.review = None}
    ELSE {NoPatch}

NextReports ==
    \/ \E u \in Requesters, pk \in ReviewIds :
           \E body \in ReportBodiesRead(u, pk) : Report(u, pk, body)
    \/ \E u \in AdminRequesters, pk \in ReportPks, q \in QueryFilters :
           \E body \in ResolveBodiesRead(u, pk, q) : Resolve(u, pk, q, body)
    \/ \E u \in AdminRequesters, pk \in ReportPks, q \in QueryFilters :
           Dismiss(u, pk, q)
    \/ \E u \in AdminRequesters, pk \in ReportPks, q \in QueryFilters :
           \E patch \in ReportPatchesRead(u, pk, q) : AdminUpdateReport(u, pk, q, patch)
    \/ Tick

SpecReports == InitReports /\ [][NextReports]_vars

\* report requests that name the review in the URL only, sent by every
\* requester with every body, between dismissals of the seeded reports
FilingBodies == {body \in ReportBodies : body.review = None}

NextFiling ==
    \/ \E u \in Requesters, pk \in ReviewIds \cup {NoSuchReview}, body \in FilingBodies :
           Report(u, pk, body)
    \/ \E u \in AdminRequesters, pk \in ReportPks : Dismiss(u, pk, None)
    \/ Tick

SpecFiling == InitReports /\ [][NextFiling]_vars

InitReportPairs ==
    /\ InitReviews
    /\ reports \in SeedPairs

\* patches that move the report to a review, reopen it or mark it resolved
ReviewPatchesRead(u, pk, q) ==
    IF IsAdminUser(u) /\ admin_report_found(reports, pk, q)
    THEN {p \in ReportPatches :
             p = [NoPatch EXCEPT !.review = p.review, !.is_resolved = p.is_resolved]}
    ELSE {NoPatch}

NextReportPairs ==
    \/ \E u \in Requesters, pk \in ReviewIds :
           \E body \in ReportBodiesRead(u, pk) : Report(u, pk, body)
    \/ \E u \in AdminRequesters, pk \in {1, 2, NoSuchReport}, q \in QueryFilters :
           \E patch \in ReviewPatchesRead(u, pk, q) : AdminUpdateReport(u, pk, q, patch)
    \/ \E u \in AdminRequesters, pk \in {1, 2, NoSuchReport}, q \in QueryFilters :
           Dismiss(u, pk, q)
    \/ Tick

SpecReportPairs == InitReportPairs /\ [][NextReportPairs]_vars

Responders == {"l1", "l2", "t1", "a1", AnonymousUser}

\* a refused request is explored with the empty body only
ResponseBodiesRead(u, review_id) ==
    IF /\ is_authenticated(u) /\ review_found(reviews, review_id)
       /\ is_rental_landlord(reviews, rentals, review_id, u)
       /\ ~has_responded(reviews[review_id])
    THEN ResponseBodies
    ELSE {[landlord_response |-> None]}

NextResponse ==
    \/ \E u \in Responders, review_id \in ReviewIds \cup {NoSuchReview} :
           \E body \in ResponseBodiesRead(u, review_id) :
               LandlordResponse(u, review_id, body)
    \/ Tick

SpecResponse == Init /\ [][NextResponse]_vars

(***************************************************************************)
(* The rental tables and the requests the search specification explores.   *)
(***************************************************************************)
HiddenStatuses == {"pending", "maintenance", "inactive"}

\* four listings, created on days 1 to 4: a free studio on the equator next
\* to the campus, a rented and an available house, and a fourth whose
\* status varies
SearchTables ==
    { (1 :> [DefaultRental EXCEPT !.price = p1, !.bedrooms = 0, !.pets_allowed = TRUE,
                                  !.property_type = "studio", !.city = <<"A", "b">>,
                                  !.distance_to_campus = Some(0),
                                  !.latitude = Some(0), !.longitude = Some(0)])
      @@ (2 :> [DefaultRental EXCEPT !.landlord = "l2", !.status = "rented",
                                     !.price = 1200, !.bedrooms = 2, !.created_at = 2,
                                     !.distance_to_campus = Some(2),
                                     !.latitude = Some(40), !.longitude = Some(-75)])
      @@ (3 :> [DefaultRental EXCEPT !.price = 1500, !.bedrooms = 2, !.pets_allowed = TRUE,
                                     !.created_at = 3,
                                     !.latitude = Some(40), !.longitude = Some(-70)])
      @@ (4 :> [DefaultRental EXCEPT !.status = s4, !.price = 1300, !.bedrooms = 2,
                                     !.created_at = 4,
                                     !.pets_allowed = TRUE, !.distance_to_campus = Some(1),
                                     !.latitude = Some(40), !.longitude = Some(-75)]) :
      p1 \in {0, 800}, s4 \in HiddenStatuses \cup {"available"} }

OptionOf(S) == {None} \cup {Some(x) : x \in S}

PriceRequests ==
    {[NoParams EXCEPT !.min_price = lo, !.max_price = hi] :
        lo \in OptionOf({0, 1000, 1600}), hi \in OptionOf({0, 1000, 1600})}

LocationRequests ==
    {[NoParams EXCEPT !.latitude = lat, !.longitude = lon, !.radius = rad] :
        lat \in OptionOf({0, 40}), lon \in OptionOf({0, -75}), rad \in OptionOf({0, 10})}

FeatureRequests ==
    {[NoParams EXCEPT !.bedrooms = b, !.pets_allowed = p,
                      !.max_distance_to_campus = d, !.city = c] :
        b \in OptionOf({0, 2}), p \in OptionOf(BOOLEAN), d \in OptionOf({0, 2}),
        c \in OptionOf({<<"a">>})}

MixedRequests ==
    {[NoParams EXCEPT !.max_price = hi, !.bedrooms = b, !.latitude = g[1],
                      !.longitude = g[2], !.radius = g[3], !.ordering = o] :
        hi \in OptionOf({0, 1300}), b \in OptionOf({2}),
        g \in {<<None, None, None>>, <<Some(40), Some(-75), Some(10)>>},
        o \in OptionOf({"price", "views_count"})}

OrderingRequests ==
    {[NoParams EXCEPT !.ordering = o] : o \in OptionOf(ORDERING_CHOICES)}

SearchRequests ==
    PriceRequests \cup LocationRequests \cup FeatureRequests \cup MixedRequests
        \cup OrderingRequests

Readers == {"l1", "t1", AnonymousUser}

InitSearch ==
    /\ rentals \in SearchTables
    /\ favorites = EmptyBag
    /\ images = <<>>
    /\ reviews = <<>>
    /\ votes = EmptyBag
    /\ response = NoResponse
    /\ pc = [w \in Workers |-> "idle"]
    /\ local = [w \in Workers |-> NoLocal]
    /\ started = 0
    /\ reports = {}
    /\ now = 1

NextSearch ==
    \/ \E q \in SearchRequests : List(AnonymousUser, q)
    \/ \E u \in Readers, pk \in {1, 4, NoSuchRental} :
           \E q \in {NoParams, [NoParams EXCEPT !.min_price = Some(1000)]} :
               Retrieve(u, pk, q)

SpecSearch == InitSearch /\ [][NextSearch]_vars

\* moderation starts a day after two approved reviews were written, with
\* one vote on review 1, its counters, and reports on the reviews
InitModeration ==
    /\ reviews = [r \in ReviewIds |->
                     [Review(r, ReviewAuthor[r], IF r = 1 THEN 4 ELSE 2, <<>>,
                             Repeat("x", 10))
                         EXCEPT !.helpful_votes = IF r = 1 THEN 1 ELSE 0,
                                !.total_votes = IF r = 1 THEN 1 ELSE 0]]
    /\ votes = SetToBag({ReviewHelpfulness(1, "a1", TRUE)})
    /\ reports \in SeedPairs
    /\ rentals = ReviewedRentals
    /\ favorites = EmptyBag
    /\ images = <<>>
    /\ response = NoResponse
    /\ pc = [w \in Workers |-> "idle"]
    /\ local = [w \in Workers |-> NoLocal]
    /\ started = 0
    /\ now = 2

ReviewQueries ==
    {NoReviewParams, [NoReviewParams EXCEPT !.rental_id = Some(1)],
     [NoReviewParams EXCEPT !.min_rating = Some(4)],
     [NoReviewParams EXCEPT !.verified_only = Some(TRUE)]}

ModerationNotes == {[admin_action |-> Some(<<"a">>)]}

NextModeration ==
    \/ \E u \in AdminRequesters, pk \in ReviewIds \cup {NoSuchReview}, q \in FlagFilters :
           ToggleApproval(u, pk, q)
    \/ \E u \in AdminRequesters, pk \in ReviewIds \cup {NoSuchReview}, q \in FlagFilters :
           ToggleVerification(u, pk, q)
    \/ \E u \in AdminRequesters, pk \in {1, 2, NoSuchReport} :
           \E body \in ModerationNotes : Resolve(u, pk, None, body)
    \/ \E u \in AdminRequesters, pk \in {1, 2, NoSuchReport} : Dismiss(u, pk, None)
    \/ \E q \in ReviewQueries : ListReviews(AnonymousUser, q)
    \/ \E pk \in ReviewIds \cup {NoSuchReview} :
           RetrieveReview(AnonymousUser, pk, NoReviewParams)
    \/ \E k \in RentalIds \cup {NoSuchRental} : RentalReviews(AnonymousUser, k)
    \/ RecentReviews(AnonymousUser)
    \/ TopRatedReviews(AnonymousUser)

SpecModeration == InitModeration /\ [][NextModeration]_vars

\* each of the two rentals was created with two images, or rental 1 with
\* three and rental 2 with one
InitImages ==
    /\ rentals = ReviewedRentals
    /\ favorites = EmptyBag
    /\ images \in {created_images(1, 1, 2) @@ created_images(2, 3, 2),
                    created_images(1, 1, 3) @@ created_images(2, 4, 1)}
    /\ reviews = <<>>
    /\ votes = EmptyBag
    /\ response = NoResponse
    /\ pc = [w \in Workers |-> "idle"]
    /\ local = [w \in Workers |-> NoLocal]
    /\ started = 0
    /\ reports = {}
    /\ now = 1

ImageUsers == {"l1", "l2", "t1", "a1", AnonymousUser}

ImagePks == {1, 2, 3, 4, NoSuchImage}

NextImages ==
    \/ \E u \in ImageUsers, pk \in ImagePks, q \in {None, Some(1)} : SetPrimary(u, pk, q)
    \/ \E u \in {"t1", AnonymousUser}, pk \in ImagePks, patch \in ImagePatches :
           UpdateImage(u, pk, None, patch)
    \/ \E u \in {"l1", AnonymousUser}, has_file \in BOOLEAN : CreateImage(u, has_file)

SpecImages == InitImages /\ [][NextImages]_vars

\* favorites start empty; rental 2 is visible or hidden
InitFavorites ==
    /\ rentals \in {ReviewedRentals, [ReviewedRentals EXCEPT ![2].status = "inactive"]}
    /\ favorites = EmptyBag
    /\ images = <<>>
    /\ reviews = <<>>
    /\ votes = EmptyBag
    /\ response = NoResponse
    /\ pc = [w \in Workers |-> "idle"]
    /\ local = [w \in Workers |-> NoLocal]
    /\ started = 0
    /\ reports = {}
    /\ now = 1

FavoriteUsers == {"t1", "t2", "l1", AnonymousUser}

NextFavorites ==
    \E u \in FavoriteUsers, pk \in RentalIds \cup {NoSuchRental} : ToggleFavorite(u, pk)

SpecFavorites == InitFavorites /\ [][NextFavorites]_vars

\* concurrent detail requests on the two rentals of landlords l1 and l2
InitViews ==
    /\ rentals = ReviewedRentals
    /\ favorites = EmptyBag
    /\ images = <<>>
    /\ reviews = <<>>
    /\ votes = EmptyBag
    /\ response = NoResponse
    /\ pc = [w \in Workers |-> "idle"]
    /\ local = [w \in Workers |-> NoLocal]
    /\ started = 0
    /\ reports = {}
    /\ now = 1

Viewers == {"l1", "t1", AnonymousUser}

NextViews ==
    \/ \E w \in Workers, u \in Viewers, pk \in RentalIds \cup {NoSuchRental} :
           BeginRetrieve(w, u, pk)
    \/ \E w \in Workers : IncrementViews(w)
    \/ \E w \in Workers : SerializeRental(w)

SpecViews == InitViews /\ [][NextViews]_vars

\* review creation starts from an empty review table
InitCreate ==
    /\ reviews = <<>>
    /\ rentals = ReviewedRentals
    /\ favorites = EmptyBag
    /\ images = <<>>
    /\ votes = EmptyBag
    /\ response = NoResponse
    /\ pc = [w \in Workers |-> "idle"]
    /\ local = [w \in Workers |-> NoLocal]
    /\ started = 0
    /\ reports = {}
    /\ now = 1

Reviewers == {"t1", "t2", "l1", AnonymousUser}

\* a refused request is explored with the empty body only
ReviewBodiesRead(u) ==
    IF tenant_has_permission(u) THEN ReviewBodies
    ELSE {[rental |-> None, rating |-> None, title |-> None, comment |-> None]}

NextCreate ==
    \E u \in Reviewers : \E body \in ReviewBodiesRead(u) : CreateReview(u, body)

SpecCreate == InitCreate /\ [][NextCreate]_vars

NextCreateConcurrent ==
    \/ \E w \in Workers, u \in Reviewers :
           \E body \in ReviewBodiesRead(u) : BeginCreate(w, u, body)
    \/ \E w \in Workers : CheckReview(w)
    \/ \E w \in Workers : InsertReview(w)

SpecCreateConcurrent == InitCreate /\ [][NextCreateConcurrent]_vars

(***************************************************************************)
(* Properties of helpfulness voting.                                       *)
(***************************************************************************)
CountersMatch(r) ==
    /\ reviews[r].total_votes = total_count(votes, r)
    /\ reviews[r].helpful_votes = helpful_count(votes, r)

\* C1: in every state reachable by votes, changed votes and vote deletions,
\* each review's total_votes equals the number of its vote rows and its
\* helpful_votes the number of its vote rows with is_helpful = true.
C1_CountersEqualVoteRows == \A r \in ReviewIds : CountersMatch(r)

AtMostOneVotePerPair ==
    \A r \in ReviewIds, u \in Users :
        SumCopies(existing_votes(votes, r, u), votes) <= 1

\* C2: a vote_helpfulness call that is accepted leaves exactly one vote row
\* for its (review, voter) pair, carrying the is_helpful value of that call
\* (so the second of two calls wins), and no state holds two rows for one
\* (review, voter) pair.
C2_OneVotePerPairLastWins ==
    [][ /\ (response'.op = "vote_helpfulness" /\ response'.status = 200) =>
              \A u \in Voters, pk \in ReviewIds, body \in VoteBodies :
                  VoteHelpfulness(u, pk, body) =>
                      LET r == vote_data_review(pk, body)
                      IN  /\ existing_votes(votes', r, u) =
                                 {ReviewHelpfulness(r, u, Get(body.is_helpful))}
                          /\ SumCopies(existing_votes(votes', r, u), votes') = 1
        /\ AtMostOneVotePerPair' ]_vars

\* a changed vote has been handled: the voter's only row says "not helpful"
\* while the review still counts the earlier "helpful" vote
C2_Witness ==
    /\ response.op = "vote_helpfulness" /\ response.status = 200
    /\ ~response.created
    /\ \E r \in ReviewIds, u \in Users :
           /\ existing_votes(votes, r, u) = {ReviewHelpfulness(r, u, FALSE)}
           /\ total_count(votes, r) = 1
           /\ reviews[r].helpful_votes = 1

\* C3: no helpfulness vote row exists whose voter is the author of the
\* voted review, whatever the request body carried.
C3_NoVoteOnOwnReview ==
    \A x \in BagToSet(votes) : reviews[x.review].tenant # x.user

AllFinished == \A w \in Workers : pc[w] = "idle"

\* C4: with vote_helpfulness requests running concurrently, once all
\* requests have finished each review's total_votes and helpful_votes equal
\* the counts of its vote rows.
C4_ConcurrentCountersMatch ==
    AllFinished => \A r \in ReviewIds : CountersMatch(r)

(***************************************************************************)
(* Properties of the report moderation workflow.                           *)
(***************************************************************************)
IsResolvedReport(pk) == \E x \in reports : x.id = pk /\ x.is_resolved

IsOpenReport(pk) == \E x \in reports : x.id = pk /\ ~x.is_resolved

IsBlank(t) == \A i \in 1..Len(t) : t[i] = " "

\* C5: once a report's is_resolved is true, no operation of the admin report
\* API (resolve, dismiss, update, partial update) returns it to the open
\* state.
C5_ResolutionIsTerminal ==
    [][ \A x \in reports : x.is_resolved =>
            \A y \in reports' : y.id = x.id => y.is_resolved ]_vars

\* C6: resolve on a report that is already resolved fails, and the report
\* keeps the resolved_at, resolved_by and admin_action of the first
\* resolution.
C6_ResolveResolvedFails ==
    [][ response'.op = "resolve" =>
            \A u \in AdminRequesters, pk \in ReportPks, q \in QueryFilters,
               body \in ResolveBodies :
                (IsResolvedReport(pk) /\ Resolve(u, pk, q, body)) =>
                    /\ response'.status # 200
                    /\ reports' = reports ]_vars

\* a resolve request was refused although the only report is resolved
C6_Witness ==
    /\ response.op = "resolve" /\ response.status = 400
    /\ reports # {}
    /\ \A x \in reports : x.is_resolved /\ IsSome(x.resolved_at)

\* C7: dismiss on a report that is already resolved or dismissed fails and
\* leaves the report unchanged; a dismiss that succeeds sets is_resolved and
\* records the fixed note, the admin and the timestamp.
C7_DismissResolvedFails ==
    [][ response'.op = "dismiss" =>
            \A u \in AdminRequesters, pk \in ReportPks, q \in QueryFilters :
                Dismiss(u, pk, q) =>
                    /\ IsResolvedReport(pk) =>
                           (response'.status # 200 /\ reports' = reports)
                    /\ response'.status = 200 =>
                           LET y == report_row(reports', pk)
                           IN  /\ y.is_resolved
                               /\ y.admin_action = DismissNote
                               /\ y.resolved_by = Some(u)
                               /\ y.resolved_at = Some(now) ]_vars

\* C8: resolve on an open report with an empty or whitespace-only
\* admin_action fails and leaves the report unchanged; an administrator's
\* resolve that reaches the report with any other note sets is_resolved and
\* records the note, the admin and the timestamp.
C8_ResolveNeedsNote ==
    [][ response'.op = "resolve" =>
            \A u \in AdminRequesters, pk \in ReportPks, q \in QueryFilters,
               body \in ResolveBodies :
                (IsOpenReport(pk) /\ Resolve(u, pk, q, body)) =>
                    IF IsBlank(data_admin_action(body))
                    THEN /\ response'.status # 200
                         /\ reports' = reports
                    ELSE (IsAdminUser(u) /\ admin_report_found(reports, pk, q)) =>
                         LET y == report_row(reports', pk)
                         IN  /\ response'.status = 200
                             /\ y.is_resolved
                             /\ y.admin_action = data_admin_action(body)
                             /\ y.resolved_by = Some(u)
                             /\ y.resolved_at = Some(now) ]_vars

\* a resolve request was refused for its blank note: the report is still open
C8_Witness ==
    /\ response.op = "resolve" /\ response.status = 400
    /\ \E x \in reports :
           ~x.is_resolved /\ x.resolved_by = None /\ x.resolved_at = None

\* C9: a report has is_resolved = true if and only if both resolved_by and
\* resolved_at are set.
C9_ResolvedIffActorAndTime ==
    \A x \in reports :
        x.is_resolved <=> (IsSome(x.resolved_by) /\ IsSome(x.resolved_at))

ReportByAuthor(u, pk, body) ==
    \/ pk \in ReviewIds /\ reviews[pk].tenant = u
    \/ report_data_review(pk, body) \in ReviewIds
           /\ reviews[report_data_review(pk, body)].tenant = u

\* C10: a report request by the author of the review fails and creates no
\* report row, whatever reason and description it carries.
C10_OwnReportFails ==
    [][ response'.op = "report" =>
            \/ response'.status \notin {200, 201} /\ reports' = reports
            \/ \A u \in Requesters, pk \in ReviewIds, body \in ReportBodies :
                   Report(u, pk, body) => ~ReportByAuthor(u, pk, body) ]_vars

\* a tenant's report on the tenant's own review was refused
C10_Witness ==
    /\ response.op = "report" /\ response.status = 400
    /\ \A x \in reports : reviews[x.review].tenant # x.reporter

AtMostOneReportPerPair ==
    \A x \in reports, y \in reports :
        (x.review = y.review /\ x.reporter = y.reporter) => x = y

\* C11: no step leads to a state with two report rows for one (review,
\* reporter) pair, and a report request by a user who already has a report
\* on that review fails and leaves the report table as it was.
C11_OneReportPerPair ==
    [][ /\ AtMostOneReportPerPair'
        /\ response'.op = "report" =>
               \/ response'.status \notin {200, 201} /\ reports' = reports
               \/ \A u \in Requesters, pk \in ReviewIds, body \in ReportBodies :
                      Report(u, pk, body) =>
                          /\ ~report_exists(reports, pk, u)
                          /\ ~report_exists(reports, report_data_review(pk, body), u) ]_vars

\* a report request was refused while tenant t2's earlier report on the
\* approved review 1 is in the table, which is as it was
C11_Witness ==
    /\ response.op = "report" /\ response.status = 403
    /\ reports \in SeedPairs
    /\ ReviewReport(1, 1, "t2", "spam", <<>>) \in reports
    /\ reviews[1].is_approved

(***************************************************************************)
(* Properties of review creation.                                          *)
(***************************************************************************)
ReviewsOf(rental, tenant) ==
    {k \in DOMAIN reviews : reviews[k].rental = rental /\ reviews[k].tenant = tenant}

AtMostOneReviewPerPair ==
    \A rental \in RentalIds, tenant \in Users : Cardinality(ReviewsOf(rental, tenant)) <= 1

\* C12: a create request by a tenant who already has a review of the rental
\* is refused as a client error, adds no row and leaves every review as it
\* was; after any sequence of create requests no (rental, tenant) pair has
\* two reviews.
C12_SecondReviewFails ==
    [][ /\ response'.op = "create_review" =>
               (ReviewsOf(response'.target, response'.user) # {} =>
                    /\ response'.status = 400
                    /\ reviews' = reviews)
        /\ AtMostOneReviewPerPair' ]_vars

\* tenant t1's second review of rental 1 was refused; the first review, with
\* its own rating and title, is the only row of the pair
C12_Witness ==
    /\ response.op = "create_review" /\ response.status = 400
    /\ response.detail = "already reviewed"
    /\ response.user = "t1" /\ response.target = 1
    /\ \E k \in DOMAIN reviews :
           /\ ReviewsOf(1, "t1") = {k}
           /\ reviews[k].rating = 5 /\ reviews[k].title = <<"t">>

\* C13: with create requests served concurrently, also when two requests of
\* one tenant for one rental both pass the existence check before either
\* inserts, no (rental, tenant) pair ever has two reviews.
C13_NoDuplicateUnderRace == AtMostOneReviewPerPair

\* both requests passed the existence check, one inserted and the other was
\* refused by the database
C13_Witness ==
    /\ AllFinished
    /\ response.op = "create_review" /\ response.status = 500
    /\ ReviewsOf(response.target, response.user) # {}

(***************************************************************************)
(* Properties of the landlord response.                                    *)
(***************************************************************************)
\* C14: a response request on a review whose landlord_response is not empty
\* fails and leaves landlord_response and landlord_response_date as they
\* were; no response request changes a response text that is set.
C14_ResponseWriteOnce ==
    [][ response'.op = "landlord_response" =>
            \A k \in DOMAIN reviews :
                reviews[k].landlord_response # <<>> =>
                    /\ response'.target = k => response'.status # 200
                    /\ reviews'[k].landlord_response = reviews[k].landlord_response
                    /\ reviews'[k].landlord_response_date =
                           reviews[k].landlord_response_date ]_vars

\* the rental's landlord asked to respond a second time, at a later time,
\* and was refused: the review keeps the first text and its date
C14_Witness ==
    /\ response.op = "landlord_response" /\ response.status = 400
    /\ response.detail = "already responded"
    /\ response.user = "l1" /\ response.target = 1
    /\ reviews[1].landlord_response = Repeat("y", MinResponseLength)
    /\ reviews[1].landlord_response_date = Some(1)
    /\ now = 2

RentalLandlord(k) == rentals[reviews[k].rental].landlord

IsVisible(r) == r.status \in {"available", "rented"}

OnlyPriceSupplied(q) ==
    q = [NoParams EXCEPT !.min_price = q.min_price, !.max_price = q.max_price]

\* C16: a list request that supplies min_price <= max_price (0 included)
\* and no other parameter returns exactly the visible rentals whose price
\* lies in [min_price, max_price].
C16_PriceRangeExact ==
    LET q == response.params
    IN  ( /\ response.op = "list"
          /\ OnlyPriceSupplied(q)
          /\ IsSome(q.min_price) /\ IsSome(q.max_price)
          /\ Get(q.min_price) <= Get(q.max_price) ) =>
            response.results =
                {k \in DOMAIN rentals :
                    /\ IsVisible(rentals[k])
                    /\ Get(q.min_price) <= rentals[k].price
                    /\ rentals[k].price <= Get(q.max_price)}

LocationSupplied(q) ==
    {f \in {"latitude", "longitude", "radius"} : IsSome(q[f])}

OnlyLocationSupplied(q) ==
    q = [NoParams EXCEPT !.latitude = q.latitude, !.longitude = q.longitude,
                         !.radius = q.radius]

\* C17: a list request that supplies one or two of latitude, longitude and
\* radius is answered with a validation error and no rentals; one that
\* supplies all three within their ranges (latitude or longitude may be 0)
\* is served with the visible rentals inside the bounding box.
C17_LocationTriple ==
    LET q == response.params
    IN  (response.op = "list" /\ OnlyLocationSupplied(q)) =>
            /\ Cardinality(LocationSupplied(q)) \in {1, 2} =>
                   (response.status = 400 /\ response.results = {})
            /\ (Cardinality(LocationSupplied(q)) = 3 /\ fields_are_valid(q)) =>
                   /\ response.status = 200
                   /\ response.results =
                          {k \in DOMAIN rentals :
                              /\ IsVisible(rentals[k])
                              /\ in_bounding_box(rentals[k], Get(q.latitude),
                                                 Get(q.longitude), Get(q.radius))}

\* C18: a list request with min_price > max_price is answered with an
\* input error and returns no rental list.
C18_PriceRangeError ==
    LET q == response.params
    IN  ( /\ response.op = "list"
          /\ IsSome(q.min_price) /\ IsSome(q.max_price)
          /\ Get(q.min_price) > Get(q.max_price) ) =>
            (response.status = 400 /\ response.results = {})

\* C19: whatever parameters a list or detail request carries, valid or
\* not, no rental it returns has the status pending, maintenance or
\* inactive.
C19_HiddenNeverReturned ==
    response.op \in {"list", "retrieve"} =>
        \A k \in response.results : rentals[k].status \notin HiddenStatuses

\* a list request with an invalid parameter combination was served with
\* the other rentals while rental 4 is hidden
C19_Witness ==
    /\ response.op = "list" /\ response.status = 200
    /\ ~search_is_valid(response.params)
    /\ rentals[4].status \in HiddenStatuses
    /\ response.results = {1, 2, 3}

ScalarFilters ==
    {"query", "city", "state", "property_type", "min_price", "max_price", "bedrooms",
     "bathrooms", "pets_allowed", "parking_available", "furnishing_status",
     "utilities_included", "max_distance_to_campus", "shuttle_service", "available_from"}

\* the requests that carry one of the supplied filters of q alone; latitude,
\* longitude and radius together are one filter
SingleFilterRequests(q) ==
    {[NoParams EXCEPT ![f] = q[f]] : f \in {g \in ScalarFilters : IsSome(q[g])}}
    \cup (IF LocationSupplied(q) = {} THEN {}
          ELSE {[NoParams EXCEPT !.latitude = q.latitude, !.longitude = q.longitude,
                                 !.radius = q.radius]})

\* C20: the rentals a list request returns are those returned for each of
\* its supplied filters alone; a supplied max_price or
\* max_distance_to_campus, 0 included, bounds every returned rental; and a
\* request without filters returns all visible rentals.
C20_FiltersConjunctive ==
    LET q == response.params
    IN  response.op = "list" =>
            /\ response.results =
                   {k \in DOMAIN rentals :
                       /\ IsVisible(rentals[k])
                       /\ \A one \in SingleFilterRequests(q) :
                              k \in get_queryset(rentals, one)}
            /\ IsSome(q.max_price) =>
                   \A k \in response.results : rentals[k].price <= Get(q.max_price)
            /\ IsSome(q.max_distance_to_campus) =>
                   \A k \in response.results :
                       /\ IsSome(rentals[k].distance_to_campus)
                       /\ Get(rentals[k].distance_to_campus) <=
                              Get(q.max_distance_to_campus)
            /\ (SingleFilterRequests(q) = {}) =>
                   response.results = {k \in DOMAIN rentals : IsVisible(rentals[k])}

(***************************************************************************)
(* Properties of the order of the rental list.                             *)
(***************************************************************************)
\* the list stands in the order of one of the enumerated sort keys: each
\* row's value is not after the next row's in the key's direction (rows
\* without a distance are left out of the comparison)
InKeyOrder(rows, key) ==
    \A i, j \in 1..Len(rows) :
        i < j =>
            LET a == rentals[rows[i]]
                b == rentals[rows[j]]
            IN  CASE key = "price" -> a.price <= b.price
                  [] key = "-price" -> a.price >= b.price
                  [] key = "created_at" -> a.created_at <= b.created_at
                  [] key = "-created_at" -> a.created_at >= b.created_at
                  [] key = "-views_count" -> a.views_count >= b.views_count
                  [] key = "distance_to_campus" ->
                         (IsSome(a.distance_to_campus) /\ IsSome(b.distance_to_campus)) =>
                             Get(a.distance_to_campus) <= Get(b.distance_to_campus)

\* C21: a list request without an ordering returns the rentals newest
\* first, and one that passes one of the enumerated sort keys (price,
\* -price, distance_to_campus, -views_count, created_at, -created_at)
\* returns them sorted by that key in that direction.
C21_ListOrdered ==
    LET q == response.params
    IN  response.op = "list" =>
            /\ q.ordering = None => InKeyOrder(response.rows, "-created_at")
            /\ (IsSome(q.ordering) /\ Get(q.ordering) \in ORDERING_CHOICES) =>
                   InKeyOrder(response.rows, Get(q.ordering))

(***************************************************************************)
(* Properties of the view counter.                                         *)
(***************************************************************************)
\* the requests that pass from the loaded rental to the serializer in this
\* step, made on rental k by someone other than its landlord
CountedPassages(k) ==
    {w \in Workers :
        /\ pc[w] = "loaded" /\ pc'[w] = "serialize"
        /\ local[w].rental = k
        /\ local[w].user # rentals[k].landlord}

\* C22: with detail requests running concurrently, every request of a
\* requester other than the rental's landlord adds exactly 1 to that
\* rental's views_count on its way to the response (n requests add n), a
\* request of the landlord adds nothing, no other rental's counter changes,
\* and a request is answered only after it has passed that point.
C22_ViewsCountedOnce ==
    [][ /\ \A k \in DOMAIN rentals :
               rentals'[k].views_count =
                   rentals[k].views_count + Cardinality(CountedPassages(k))
        /\ \A w \in Workers :
               (pc[w] = "loaded" /\ pc'[w] # "loaded") => pc'[w] = "serialize"
        /\ (response' # response /\ response'.status = 200) =>
               \E w \in Workers : pc[w] = "serialize" /\ pc'[w] = "idle" ]_vars

\* two requests of non-landlords on rental 1 were both loaded before either
\* was counted, and both are counted: the counter stands at 2
C22_Witness ==
    /\ \A w \in Workers : pc[w] = "serialize" /\ local[w].rental = 1
    /\ \A w \in Workers : local[w].user # rentals[1].landlord /\ local[w].self.views_count = 0
    /\ rentals[1].views_count = 2
    /\ rentals[2].views_count = 0

(***************************************************************************)
(* Properties of review moderation.                                        *)
(***************************************************************************)
\* the row as it stands after one of its flags was toggled: the flag is
\* negated, updated_at carries the time of the save, nothing else differs
Flipped(row, flag, t) == [row EXCEPT ![flag] = ~@, !.updated_at = t]

\* review r is as it was, or it is the target of a successful toggle of
\* flag and has only that flag negated
OnlyFlagFlipped(r, flag) ==
    reviews'[r] =
        IF r = response'.target /\ response'.status = 200
        THEN Flipped(reviews[r], flag, now)
        ELSE reviews[r]

\* C23: resolve and dismiss leave is_approved and is_verified of every
\* review unchanged, and toggle_approval and toggle_verification leave
\* every report unchanged and negate only their own flag, of the review
\* they name.
C23_ModerationIndependent ==
    [][ /\ response'.op \in {"resolve", "dismiss"} =>
               \A r \in DOMAIN reviews :
                   /\ reviews'[r].is_approved = reviews[r].is_approved
                   /\ reviews'[r].is_verified = reviews[r].is_verified
        /\ response'.op = "toggle_approval" =>
               /\ reports' = reports
               /\ \A r \in DOMAIN reviews : OnlyFlagFlipped(r, "is_approved")
        /\ response'.op = "toggle_verification" =>
               /\ reports' = reports
               /\ \A r \in DOMAIN reviews : OnlyFlagFlipped(r, "is_verified") ]_vars

\* review 1 is hidden, the last of its reports has just been resolved, and
\* it is still hidden
C23_Witness ==
    /\ response.op = "resolve" /\ response.status = 200
    /\ ~reviews[1].is_approved
    /\ \E x \in reports : x.review = 1
    /\ \A x \in reports : x.review = 1 => x.is_resolved

PublicReads ==
    {"review_list", "review_retrieve", "rental_reviews", "recent_reviews",
     "top_rated_reviews"}

C25_FailedRecomputeRollsBack ==
    ( /\ response.op = "vote_helpfulness" /\ response.status = 500
      /\ "detail" \in DOMAIN response
      /\ response.detail = "DatabaseError" ) =>
        \A v \in BagToSet(votes) :
            ~(v.review = response.target /\ v.user = response.user)

(***************************************************************************)
(* Properties of filing a report.                                          *)
(***************************************************************************)
\* u may report review pk: the review is approved, u is signed in, is not
\* its author and has no report on it
MayReport(u, pk) ==
    /\ is_authenticated(u)
    /\ pk \in DOMAIN reviews /\ reviews[pk].is_approved
    /\ reviews[pk].tenant # u
    /\ ~\E x \in reports : x.review = pk /\ x.reporter = u

\* the step has stored exactly one new report, an open one of u on pk
Filed(u, pk) ==
    /\ response'.status = 201
    /\ \E x \in reports' :
           /\ reports' = reports \cup {x} /\ x \notin reports
           /\ x.review = pk /\ x.reporter = u /\ ~x.is_resolved

\* one user of each role
RoleUsers == {"t2", "l1", "a1"}

\* C26: a tenant, a landlord and an admin can each file a report: their
\* report requests with a valid body, on approved reviews of others that
\* they have not reported yet, pass the permission checks and store
\* exactly one open report for the pair.
C26_ReportCanBeFiled ==
    [][ response'.op = "report" =>
            \A u \in RoleUsers, pk \in ReviewIds, body \in FilingBodies :
                ( /\ Report(u, pk, body)
                  /\ MayReport(u, pk)
                  /\ report_is_valid(pk, body) ) => Filed(u, pk) ]_vars

(***************************************************************************)
(* Properties of the vote response.                                        *)
(***************************************************************************)
\* C27: the helpful_votes and total_votes a successful vote_helpfulness
\* request returns are the stored counters of the review after the vote.
C27_ResponseCountersCurrent ==
    (response.op = "vote_helpfulness" /\ response.status = 200) =>
        /\ response.helpful_votes = reviews[response.target].helpful_votes
        /\ response.total_votes = reviews[response.target].total_votes

(***************************************************************************)
(* Properties of the helpfulness percentage.                               *)
(***************************************************************************)
\* C28: with votes, changed votes and vote deletions served one at a time,
\* every review has 0 <= helpful_votes <= total_votes, and its
\* helpfulness_percentage is 0 when total_votes = 0 and otherwise lies
\* between 0 and 100 (0 and 1000 tenths).
C28_PercentageInRange ==
    \A r \in DOMAIN reviews :
        /\ 0 <= reviews[r].helpful_votes
        /\ reviews[r].helpful_votes <= reviews[r].total_votes
        /\ reviews[r].total_votes = 0 => helpfulness_percentage(reviews[r]) = 0
        /\ reviews[r].total_votes > 0 =>
               /\ 0 <= helpfulness_percentage(reviews[r])
               /\ helpfulness_percentage(reviews[r]) <= 1000

\* review 2 had two votes, one of them was changed and one deleted: one
\* helpful vote out of one is counted, 100 percent
C28_Witness ==
    /\ response.op = "delete_vote"
    /\ reviews[2].helpful_votes = 1 /\ reviews[2].total_votes = 1
    /\ helpfulness_percentage(reviews[2]) = 1000
    /\ \E v \in BagToSet(votes) : v.review = 2 /\ v.user = "a1" /\ v.is_helpful

(***************************************************************************)
(* Properties of the favorites.                                            *)
(***************************************************************************)
HasFavorite(fs, u, k) == \E x \in BagToSet(fs) : x.user = u /\ x.rental = k

AtMostOneFavoritePerPair ==
    \A x \in BagToSet(favorites) : CopiesIn(x, favorites) = 1

\* C29: favorites start empty; every toggle_favorite call that succeeds
\* adds the caller's row for the rental if it was absent and removes it if
\* it was present, a call that fails changes nothing, no call changes
\* the row of another user or rental, and no pair ever has two rows: so
\* the row exists exactly after an odd number of toggles of the pair.
C29_ToggleInvolution ==
    [][ /\ AtMostOneFavoritePerPair'
        /\ response'.op = "toggle_favorite" =>
               LET u  == response'.user
                   pk == response'.target
               IN  IF response'.status \in {200, 201}
                   THEN /\ HasFavorite(favorites', u, pk) = ~HasFavorite(favorites, u, pk)
                        /\ HasFavorite(favorites', u, pk) = (response'.status = 201)
                        /\ \A v \in Users, k \in RentalIds :
                               (v # u \/ k # pk) =>
                                   HasFavorite(favorites', v, k) = HasFavorite(favorites, v, k)
                   ELSE favorites' = favorites ]_vars

\* t1 has toggled rental 1 twice and t2 once: t1's row is gone again and
\* t2's row is still there
C29_Witness ==
    /\ response.op = "toggle_favorite" /\ response.status = 200
    /\ response.user = "t1" /\ response.target = 1
    /\ ~HasFavorite(favorites, "t1", 1)
    /\ HasFavorite(favorites, "t2", 1)

(***************************************************************************)
(* Properties of the primary image.                                        *)
(***************************************************************************)
PrimaryImages(imgs, rental) ==
    {k \in DOMAIN imgs : imgs[k].rental = rental /\ imgs[k].is_primary}

AtMostOnePrimary ==
    \A k \in DOMAIN rentals : Cardinality(PrimaryImages(images, k)) <= 1

\* C30: after every image save and set_primary call each rental has at
\* most one primary image; a set_primary call succeeds only for the
\* landlord of the image's rental, makes that image the only primary one
\* of its rental and leaves the images of other rentals as they were; a
\* set_primary call of anyone else fails and changes no image.
C30_OnePrimaryImage ==
    [][ /\ AtMostOnePrimary'
        /\ response'.op = "set_primary" =>
               LET u  == response'.user
                   pk == response'.target
               IN  IF pk \in DOMAIN images /\ rentals[images[pk].rental].landlord = u
                   THEN /\ response'.status \in {200, 404}
                        /\ (response'.status = 200) =>
                               /\ PrimaryImages(images', images[pk].rental) = {pk}
                               /\ \A k \in DOMAIN images :
                                      /\ images'[k].rental = images[k].rental
                                      /\ images'[k].order = images[k].order
                                      /\ (images[k].rental # images[pk].rental) =>
                                             (images'[k] = images[k])
                        /\ (response'.status = 404) => (images' = images)
                   ELSE /\ response'.status \in {401, 403, 404}
                        /\ images' = images ]_vars

\* landlord l1 has made image 2 the primary image of rental 1 in place of
\* image 1, and rental 2 still has its own primary image
C30_Witness ==
    /\ response.op = "set_primary" /\ response.status = 200
    /\ response.user = "l1" /\ response.target = 2
    /\ PrimaryImages(images, 1) = {2}
    /\ PrimaryImages(images, 2) # {}

====
